---- MODULE Spec2Model ----
(***************************************************************************)
(* A model of the PeerLearn backend (FastAPI + MongoDB + Socket.IO):       *)
(* classroom chat (routers/chat.py, routers/classrooms.py, main.py), the   *)
(* friend graph (routers/friends.py) and document-session slide generation *)
(* (routers/notes.py).                                                     *)
(*                                                                         *)
(* Identifiers.  MongoDB compares values by type: the ObjectId o and the   *)
(* string str(o) are different values, in queries ({"_id": x}, $addToSet,  *)
(* $pull, $in) as well as in Python (==, in).  The code mixes both forms,  *)
(* so an identifier is modelled as a pair <<kind, n>>, kind "oid" or       *)
(* "str".  Where each form comes from:                                     *)
(*   - insert_one gives every document an ObjectId _id;                    *)
(*   - get_current_user (auth.py:88) turns the user's _id into a string,   *)
(*     so current_user.id is always the string form;                       *)
(*   - ObjectId(s) parses a string, str(o) formats an ObjectId;            *)
(*   - a PyObjectId field (models.py:11-49) keeps the value it is given    *)
(*     (python_schema: an ObjectId instance or a str) and serialises it    *)
(*     with str(x) in .dict() (plain serializer, used always).             *)
(***************************************************************************)
EXTENDS Integers, Sequences, FiniteSets, TLC

VARIABLES
    classrooms,   \* db.classrooms: set of documents
    rooms,        \* db.rooms: set of documents
    messages,     \* db.messages: set of documents
    nextC,        \* number of classroom documents inserted so far
    nextR,        \* number of room documents inserted so far
    nextM,        \* number of message documents inserted so far
    now,          \* datetime.utcnow(), a logical clock
    sessions,     \* Socket.IO: sid -> saved session (or NoSession)
    sockRooms,    \* Socket.IO: sid -> set of socket-room names entered
    editPend,     \* edit_message requests suspended at their moderation await
    last,         \* outcome of the handler that ran last (response, emit)
    friends,      \* db.users: user -> the document's friends array
    friendRequests, \* db.friend_requests: set of documents
    nextF,        \* number of friend_request documents inserted so far
    friendOps,    \* friends.py handlers in flight: slot -> suspended coroutine
    docSessions,  \* db.document_sessions: set of documents
    slideReqs,    \* generate_document_slides handlers suspended before their update
    slideJobs,    \* background tasks: sequence of process_document_slide_generation runs
    nextS,        \* number of document_session documents inserted so far
    nextQ,        \* number of slide-generation requests received so far
    finalLog,     \* history: the jobs whose final update was applied, in order
    ytSessions,   \* db.youtube_sessions: set of documents
    nextY,        \* number of youtube_session documents inserted so far
    chatTurns,    \* chat turns suspended at their model call
    nextT,        \* number of chat turns begun so far
    createPend,   \* create_classroom handlers suspended before their insert
    userDocs,     \* db.users as routers/auth.py writes it: set of documents
    verification_codes, \* auth.py's dict: email -> stored entry, NoEntry when absent
    authOps,      \* register and verify_email handlers in flight: slot -> coroutine
    utcnow,       \* datetime.utcnow(), in units of the lifetime of a code
    nextA,        \* number of register and verify-email requests received so far
    retryOps,     \* youtube_service calls that retry: slot -> the call's progress
    wallets,      \* db.wallets: the documents in insertion order
    notePurchases, \* db.note_purchases: set of documents
    downloads,    \* db.marketplace_notes: the downloads field of each note
    purchaseOps,  \* purchase_note handlers in flight: slot -> suspended coroutine
    nextP         \* number of purchase requests received so far

chatVars == <<classrooms, rooms, messages, nextC, nextR, nextM, now,
              sessions, sockRooms, editPend>>

friendVars == <<friends, friendRequests, nextF, friendOps>>

slideVars == <<docSessions, slideReqs, slideJobs, nextS, nextQ, finalLog>>

studyVars == <<ytSessions, nextY, chatTurns, nextT>>

accountVars == <<userDocs, verification_codes, authOps, utcnow, nextA>>

retryVars == <<retryOps>>

marketVars == <<wallets, notePurchases, downloads, purchaseOps, nextP>>

restVars == <<accountVars, retryVars, marketVars>>

serviceVars == <<createPend, restVars>>

vars == <<chatVars, last, friendVars, slideVars, studyVars, serviceVars>>

----------------------------------------------------------------------------
(* Bounds of the model *)

MaxClassrooms == 1
MaxRooms == 2
MaxMessages == 1
MaxThread == 2
MaxClock == 4
MaxPendingEdits == 1
MaxInFlight == 2
MaxFriendRequests == 2
MaxDocSessions == 1
MaxSlideRequests == 2
MaxSlides == 2
MaxStudySessions == 2
MaxYouTubeSessions == 1
MaxTurns == 3
MaxManagedClassrooms == 2
MaxManagedRooms == 3
MaxUtcNow == 2
MaxAuthRequests == 3
MaxPurchaseRequests == 3

----------------------------------------------------------------------------
(* Identifiers *)

Oid(n) == <<"oid", n>>
StrId(n) == <<"str", n>>
\* str(x): ObjectId -> its hex string; a string stays what it is
ToStr(x) == <<"str", x[2]>>
\* ObjectId.is_valid(s): 0 stands for a string that is no ObjectId
IsValidId(x) == x[2] # 0
\* ObjectId(s), defined when IsValidId(s)
ToOid(x) == <<"oid", x[2]>>

Users == {1, 2}
UserOid(u) == Oid(u)
\* current_user.id as get_current_user builds it
CurrentUserId(u) == ToStr(UserOid(u))

ClassroomNums == 1..MaxClassrooms
RoomNums == 1..MaxRooms
MessageNums == 1..(IF MaxThread > MaxMessages THEN MaxThread ELSE MaxMessages)
ClassroomOid(k) == Oid(10 + k)
RoomOid(k) == Oid(20 + k)
MessageOid(k) == Oid(30 + k)

InvalidId == StrId(0)
\* what a client can put in a URL path or a payload as a room id
RoomIdInputs == {ToStr(RoomOid(k)) : k \in RoomNums}
ClassroomIdInputs == {ToStr(ClassroomOid(k)) : k \in ClassroomNums}
MessageIdInputs == {ToStr(MessageOid(k)) : k \in MessageNums}

InviteCodes == {"X7K9QP2L"}
BadInviteCode == "NOSUCHCODE"
Contents == {"hello", "bye"}
NoContent == "None"
RoomNames == {"General", "Homework"}

Sids == {1}
NoSession == [user_id |-> StrId(0), name |-> 0]
NoEmit == [event |-> "none"]
NoUser == StrId(0)
NoRoom == StrId(0)

----------------------------------------------------------------------------
(* Store queries *)

\* find_one({"_id": id}) on a collection; Found tells whether it matched
Found(coll, id) == \E d \in coll : d._id = id
FindOne(coll, id) == CHOOSE d \in coll : d._id = id

\* the members of a socket room at the time of an emit
InSocketRoom(name) == {s \in Sids : name \in sockRooms[s]}

Emit(event, room, msg) ==
    [event |-> event, room |-> room, msg |-> msg, to |-> InSocketRoom(room)]

\* What a handler did: the user and room it acted for, the status it answered,
\* whether it called moderate_message, the content it wrote to db.messages
\* (if any) and the event it broadcast (if any)
Outcome(op, user, room, status, moderated, wrote, emit) ==
    [op |-> op, user |-> user, room |-> room, status |-> status,
     moderated |-> moderated, wrote |-> wrote, emit |-> emit]

\* ai_service.moderate_message: the classifier's answer, or the fallback of
\* its two except branches (is_appropriate = True)
ModerationVerdicts == {"appropriate", "inappropriate", "unparsable", "unavailable"}

\* The dict moderate_message returns: the classifier's JSON reply, the
\* fallback of the JSONDecodeError branch, or that of the outer except branch
ModerateMessage(verdict) ==
    IF verdict = "unparsable" THEN [is_appropriate |-> TRUE, confidence |-> "0.5"]
    ELSE IF verdict = "unavailable" THEN [is_appropriate |-> TRUE, confidence |-> "0.0"]
    ELSE [is_appropriate |-> verdict = "appropriate", confidence |-> "reply"]

\* moderation_result.get("is_appropriate", True)
IsAppropriate(verdict) == ModerateMessage(verdict).is_appropriate

\* room -> classroom -> members, as every room-scoped handler does it:
\* classroom = find_one({"_id": room["classroom_id"]});
\* not classroom or user_id not in classroom["members"]
AccessDenied(room, user_id) ==
    \/ ~Found(classrooms, room.classroom_id)
    \/ user_id \notin FindOne(classrooms, room.classroom_id).members

----------------------------------------------------------------------------
(* routers/classrooms.py *)

UsedInviteCodes == {c.invite_code : c \in classrooms}

\* A classroom document whose creator is not put in its members
NewClassroom_WithoutAdmin(cid, me, code) ==
    [_id |-> cid, admin_id |-> me, members |-> {}, invite_code |-> code]

\* classroom_dict, lines 33-40
NewClassroom(cid, me, code) ==
    [_id |-> cid, admin_id |-> me, members |-> {me}, invite_code |-> code]

\* POST /classrooms/
CreateClassroom(u, code) ==
    /\ code \notin UsedInviteCodes        \* the while loop at lines 29-30
    /\ LET cid == ClassroomOid(nextC + 1)
           classroom == NewClassroom(cid, CurrentUserId(u), code)
           \* RoomCreate(classroom_id=classroom_id).dict(): the PyObjectId
           \* field is serialised with str()
           general == [_id |-> RoomOid(nextR + 1),
                       classroom_id |-> ToStr(cid),
                       name |-> "General"]
       IN /\ classrooms' = classrooms \cup {classroom}
          /\ rooms' = rooms \cup {general}
          /\ nextC' = nextC + 1
          /\ nextR' = nextR + 1
          /\ last' = Outcome("create_classroom", CurrentUserId(u), NoRoom,
                             "200", FALSE, NoContent, NoEmit)
    /\ UNCHANGED <<serviceVars, friendVars, slideVars, studyVars, messages, nextM, now, sessions, sockRooms, editPend>>

\* POST /classrooms/join/{invite_code}
JoinClassroom(u, code) ==
    LET me == CurrentUserId(u)
        hit == {c \in classrooms : c.invite_code = code}
    IN /\ IF hit = {}
          THEN /\ last' = Outcome("join_classroom", me, NoRoom, "404", FALSE, NoContent, NoEmit)
               /\ UNCHANGED classrooms
          ELSE LET classroom == CHOOSE c \in hit : TRUE
               IN IF me \in classroom.members
                  THEN /\ last' = Outcome("join_classroom", me, NoRoom, "400",
                                           FALSE, NoContent, NoEmit)
                       /\ UNCHANGED classrooms
                  ELSE /\ classrooms' = (classrooms \ {classroom}) \cup
                              {[classroom EXCEPT !.members = @ \cup {me}]}
                       /\ last' = Outcome("join_classroom", me, NoRoom, "200",
                                           FALSE, NoContent, NoEmit)
       /\ UNCHANGED <<serviceVars, friendVars, slideVars, studyVars, rooms, messages, nextC, nextR, nextM, now, sessions,
                      sockRooms, editPend>>

\* DELETE /classrooms/{classroom_id}/leave
LeaveClassroom(u, classroom_id) ==
    LET me == CurrentUserId(u)
        status == IF ~IsValidId(classroom_id) THEN "400"
                  ELSE IF ~Found(classrooms, ToOid(classroom_id)) THEN "404"
                  ELSE IF FindOne(classrooms, ToOid(classroom_id)).admin_id = me
                       THEN "400"
                  ELSE IF me \notin FindOne(classrooms, ToOid(classroom_id)).members
                       THEN "400"
                  ELSE "200"
    IN /\ IF status = "200"
          THEN LET classroom == FindOne(classrooms, ToOid(classroom_id))
               IN classrooms' = (classrooms \ {classroom}) \cup
                      {[classroom EXCEPT !.members = @ \ {me}]}
          ELSE UNCHANGED classrooms
       /\ last' = Outcome("leave_classroom", me, NoRoom, status, FALSE, NoContent, NoEmit)
       /\ UNCHANGED <<serviceVars, friendVars, slideVars, studyVars, rooms, messages, nextC, nextR, nextM, now, sessions,
                      sockRooms, editPend>>

\* Message documents carry no classroom_id field (MessageBase, and the two
\* insert sites chat.py:92-99 and chat.py:200-206)
NoField == <<"absent", 0>>
MessageClassroomId(m) == NoField

\* db.messages.delete_many({"classroom_id": classroom_object_id})
DeleteClassroomMessages(msgs, classroom_object_id) ==
    {m \in msgs : MessageClassroomId(m) # classroom_object_id}

\* db.rooms.delete_many({"classroom_id": classroom_object_id})
DeleteClassroomRooms(rms, classroom_object_id) ==
    {r \in rms : r.classroom_id # classroom_object_id}

\* DELETE /classrooms/{classroom_id}
DeleteClassroom(u, classroom_id) ==
    LET me == CurrentUserId(u)
        status == IF ~IsValidId(classroom_id) THEN "400"
                  ELSE IF ~Found(classrooms, ToOid(classroom_id)) THEN "404"
                  ELSE IF FindOne(classrooms, ToOid(classroom_id)).admin_id # me
                       THEN "403"
                  ELSE "200"
    IN /\ IF status = "200"
          THEN /\ rooms' = DeleteClassroomRooms(rooms, ToOid(classroom_id))
               /\ messages' = DeleteClassroomMessages(messages, ToOid(classroom_id))
               /\ classrooms' = {c \in classrooms : c._id # ToOid(classroom_id)}
          ELSE UNCHANGED <<rooms, messages, classrooms>>
       /\ last' = Outcome("delete_classroom", me, classroom_id, status, FALSE, NoContent, NoEmit)
       /\ UNCHANGED <<serviceVars, friendVars, slideVars, studyVars, nextC, nextR, nextM, now, sessions, sockRooms, editPend>>

\* POST /classrooms/{classroom_id}/rooms
CreateRoom(u, classroom_id, name) ==
    LET me == CurrentUserId(u)
        status == IF ~IsValidId(classroom_id) THEN "400"
                  ELSE IF ~Found(classrooms, ToOid(classroom_id)) THEN "404"
                  ELSE IF ToStr(FindOne(classrooms, ToOid(classroom_id)).admin_id)
                              # ToStr(me)
                       THEN "403"
                  ELSE IF \E r \in rooms : /\ r.classroom_id = ToOid(classroom_id)
                                           /\ r.name = name
                       THEN "400"
                  ELSE "200"
    IN /\ IF status = "200"
          THEN /\ rooms' = rooms \cup {[_id |-> RoomOid(nextR + 1),
                                        classroom_id |-> ToOid(classroom_id),
                                        name |-> name]}
               /\ nextR' = nextR + 1
          ELSE UNCHANGED <<rooms, nextR>>
       /\ last' = Outcome("create_room", me, NoRoom, status, FALSE, NoContent, NoEmit)
       /\ UNCHANGED <<serviceVars, friendVars, slideVars, studyVars, classrooms, messages, nextC, nextM, now, sessions,
                      sockRooms, editPend>>

\* db.messages.delete_many({"room_id": room_object_id})
DeleteRoomMessages(msgs, room_object_id) ==
    {m \in msgs : m.room_id # room_object_id}

\* DELETE /classrooms/{classroom_id}/rooms/{room_id}
DeleteRoom(u, classroom_id, room_id) ==
    LET me == CurrentUserId(u)
        status == IF ~IsValidId(classroom_id) \/ ~IsValidId(room_id) THEN "400"
                  ELSE IF ~Found(classrooms, ToOid(classroom_id)) THEN "404"
                  ELSE IF FindOne(classrooms, ToOid(classroom_id)).admin_id # me
                       THEN "403"
                  ELSE IF ~Found(rooms, ToOid(room_id)) THEN "404"
                  ELSE IF FindOne(rooms, ToOid(room_id)).name = "General" THEN "400"
                  ELSE "200"
    IN /\ IF status = "200"
          THEN /\ messages' = DeleteRoomMessages(messages, ToOid(room_id))
               /\ rooms' = {r \in rooms : r._id # ToOid(room_id)}
          ELSE UNCHANGED <<messages, rooms>>
       /\ last' = Outcome("delete_room", me, room_id, status, FALSE, NoContent, NoEmit)
       /\ UNCHANGED <<serviceVars, friendVars, slideVars, studyVars, classrooms, nextC, nextR, nextM, now, sessions,
                      sockRooms, editPend>>

----------------------------------------------------------------------------
(* main.py: the Socket.IO handshake *)

\* A bearer token as jwt.decode sees it: whether the signature and expiry
\* check out, its "type" claim and its "sub" claim (an email; users are
\* named by their number, 0 is an email of no user)
Tokens == [valid : BOOLEAN, type : {"access", "refresh"}, sub : Users \cup {0}]
NoToken == [valid |-> FALSE, type |-> "none", sub |-> 0]

\* A verification that accepts a token of any type
VerifyToken_AnyType(token, token_type) ==
    token.valid

\* auth.verify_token(token): TRUE when it returns token data, FALSE when it raises
VerifyToken(token, token_type) ==
    /\ token.valid
    /\ token.type = token_type

\* connect(sid, environ, auth)
Connect(sid, token) ==
    /\ sessions[sid] = NoSession
    /\ IF /\ token # NoToken
          /\ VerifyToken(token, "access")
          /\ token.sub \in Users           \* db.users.find_one({"email": ...})
       THEN /\ sessions' = [sessions EXCEPT ![sid] =
                               [user_id |-> ToStr(UserOid(token.sub)),
                                name |-> token.sub]]
            /\ last' = Outcome("connect", ToStr(UserOid(token.sub)), NoRoom,
                               "ok", FALSE, NoContent, NoEmit)
       ELSE /\ UNCHANGED sessions
            /\ last' = Outcome("connect", NoUser, NoRoom, "error", FALSE, NoContent, NoEmit)
    /\ UNCHANGED <<serviceVars, friendVars, slideVars, studyVars, classrooms, rooms, messages, nextC, nextR, nextM, now,
                   sockRooms, editPend>>

\* disconnect(sid): the handler only logs; the Socket.IO server drops the
\* connection's session and its room memberships
Disconnect(sid) ==
    /\ sessions[sid] # NoSession
    /\ sessions' = [sessions EXCEPT ![sid] = NoSession]
    /\ sockRooms' = [sockRooms EXCEPT ![sid] = {}]
    /\ last' = Outcome("disconnect", NoUser, NoRoom, "ok", FALSE, NoContent, NoEmit)
    /\ UNCHANGED <<serviceVars, friendVars, slideVars, studyVars, classrooms, rooms, messages, nextC, nextR, nextM, now, editPend>>

----------------------------------------------------------------------------
(* routers/chat.py: Socket.IO event handlers *)

\* @sio.on('join_room')
HandleJoinRoom(sid, room_id) ==
    LET session == sessions[sid]
        status == IF session = NoSession THEN "Unauthorized"
                  ELSE IF ~IsValidId(room_id) THEN "exception"
                  ELSE IF ~Found(rooms, ToOid(room_id)) THEN "Room not found"
                  ELSE IF AccessDenied(FindOne(rooms, ToOid(room_id)), session.user_id)
                       THEN "Access denied"
                  ELSE "ok"
    IN /\ IF status = "ok"
          THEN sockRooms' = [sockRooms EXCEPT ![sid] = @ \cup {ToStr(room_id)}]
          ELSE UNCHANGED sockRooms
       /\ last' = Outcome("join_room", session.user_id, room_id, status, FALSE, NoContent, NoEmit)
       /\ UNCHANGED <<serviceVars, friendVars, slideVars, studyVars, classrooms, rooms, messages, nextC, nextR, nextM, now,
                      sessions, editPend>>

\* @sio.on('leave_room')
HandleLeaveRoom(sid, room_id) ==
    /\ sockRooms' = [sockRooms EXCEPT ![sid] = @ \ {ToStr(room_id)}]
    /\ last' = Outcome("leave_room", sessions[sid].user_id, room_id, "ok", FALSE,
                       NoContent,
                       IF sessions[sid] # NoSession
                       THEN [event |-> "user_left", room |-> ToStr(room_id),
                             msg |-> NoField,
                             to |-> InSocketRoom(ToStr(room_id)) \ {sid}]
                       ELSE NoEmit)
    /\ UNCHANGED <<serviceVars, friendVars, slideVars, studyVars, classrooms, rooms, messages, nextC, nextR, nextM, now,
                   sessions, editPend>>

\* A new message document: edited/deleted start False, there is no edited_at
NewMessage(room_id, content, sender_id) ==
    [_id |-> MessageOid(nextM + 1), room_id |-> room_id, content |-> content,
     sender_id |-> sender_id, timestamp |-> now, edited |-> FALSE,
     deleted |-> FALSE, edited_at |-> 0]

\* handle_message, lines 77-89: the checks made before the insert
HandleMessageStatus(sid, room_id, content) ==
    IF room_id = NoRoom \/ content = NoContent THEN "Missing required fields"
    ELSE IF sessions[sid] = NoSession THEN "Unauthorized"
    ELSE "ok"

\* handle_message, lines 92-99: the document inserted
HandleMessageRecord(sid, room_id, content) ==
    NewMessage(ToOid(room_id), content, sessions[sid].user_id)

\* @sio.on('send_message'): data = {room_id, content}, either may be missing
HandleMessage(sid, room_id, content) ==
    LET user_data == sessions[sid]
        status == HandleMessageStatus(sid, room_id, content)
        message_data == HandleMessageRecord(sid, room_id, content)
    IN /\ IF status = "ok"
          THEN /\ messages' = messages \cup {message_data}
               /\ nextM' = nextM + 1
               /\ now' = now + 1
               /\ last' = Outcome("socket_send", user_data.user_id, room_id, "ok",
                                  FALSE, content,
                                  Emit("new_message", ToStr(room_id), message_data._id))
          ELSE /\ UNCHANGED <<messages, nextM, now>>
               /\ last' = Outcome("socket_send", user_data.user_id, room_id, status,
                                  FALSE, NoContent, NoEmit)
       /\ UNCHANGED <<serviceVars, friendVars, slideVars, studyVars, classrooms, rooms, nextC, nextR, sessions, sockRooms, editPend>>

----------------------------------------------------------------------------
(* routers/chat.py: HTTP endpoints *)

\* The set S of documents as a sequence, newest timestamp first:
\* .sort("timestamp", -1)
RECURSIVE SortNewestFirst(_)
SortNewestFirst(S) ==
    IF S = {} THEN <<>>
    ELSE LET newest == CHOOSE m \in S : \A o \in S : o.timestamp <= m.timestamp
         IN <<newest>> \o SortNewestFirst(S \ {newest})

\* .skip(offset).limit(limit) of a sequence (limit 0 is no limit in MongoDB)
SkipLimit(seq, offset, limit) ==
    LET skipped == IF offset >= Len(seq) THEN <<>>
                   ELSE SubSeq(seq, offset + 1, Len(seq))
    IN IF limit = 0 \/ limit >= Len(skipped) THEN skipped
       ELSE SubSeq(skipped, 1, limit)

Reversed(seq) == [i \in 1..Len(seq) |-> seq[Len(seq) + 1 - i]]

\* A query that forgets the "deleted": False filter
FindRoomMessages_AnyDeleted(room_object_id) ==
    {m \in messages : m.room_id = room_object_id}

\* db.messages.find({"room_id": room_object_id, "deleted": False})
FindRoomMessages(room_object_id) ==
    {m \in messages : m.room_id = room_object_id /\ m.deleted = FALSE}

\* the list get_room_messages returns to a caller that passed its checks
RoomMessagesResult(room_id, limit, offset) ==
    Reversed(SkipLimit(SortNewestFirst(FindRoomMessages(ToOid(room_id))),
                       offset, limit))

\* the messages summarize_room_chat hands to ai_service.summarize_chat
\* (the last 100; the model never holds that many)
SummarizeInput(room_id) ==
    SortNewestFirst(FindRoomMessages(ToOid(room_id)))

\* the checks shared by the room-scoped HTTP endpoints (chat.py:128-150,
\* 167-189, 361-383): the status they raise, or "200"
RoomAccessStatus(u, room_id) ==
    IF ~IsValidId(room_id) THEN "400"
    ELSE IF ~Found(rooms, ToOid(room_id)) THEN "404"
    ELSE IF AccessDenied(FindOne(rooms, ToOid(room_id)), CurrentUserId(u)) THEN "403"
    ELSE "200"

\* GET /chat/rooms/{room_id}/messages
GetRoomMessages(u, room_id) ==
    /\ last' = Outcome("http_list", CurrentUserId(u), room_id,
                       RoomAccessStatus(u, room_id), FALSE, NoContent, NoEmit)
    /\ UNCHANGED <<serviceVars, friendVars, slideVars, studyVars, classrooms, rooms, messages, nextC, nextR, nextM, now,
                   sessions, sockRooms, editPend>>

\* send_message, lines 167-197: the checks made before the insert
SendMessageStatus(u, room_id, verdict) ==
    IF RoomAccessStatus(u, room_id) # "200" THEN RoomAccessStatus(u, room_id)
    ELSE IF ~IsAppropriate(verdict) THEN "400"
    ELSE "200"

\* send_message, lines 200-206: the document inserted
SendMessageRecord(u, body_room_id, content) ==
    NewMessage(body_room_id, content, CurrentUserId(u))

\* POST /chat/rooms/{room_id}/messages; the body is MessageCreate
\* {content, room_id}, and message_data.dict() is what gets stored
SendMessage(u, room_id, body_room_id, content, verdict) ==
    LET me == CurrentUserId(u)
        access == RoomAccessStatus(u, room_id)
        status == SendMessageStatus(u, room_id, verdict)
        message_dict == SendMessageRecord(u, body_room_id, content)
    IN /\ IF status = "200"
          THEN /\ messages' = messages \cup {message_dict}
               /\ nextM' = nextM + 1
               /\ now' = now + 1
               /\ last' = Outcome("http_send", me, room_id, "200", TRUE, content,
                                  Emit("new_message", ToStr(room_id), message_dict._id))
          ELSE /\ UNCHANGED <<messages, nextM, now>>
               /\ last' = Outcome("http_send", me, room_id, status,
                                  access = "200", NoContent, NoEmit)
       /\ UNCHANGED <<serviceVars, friendVars, slideVars, studyVars, classrooms, rooms, nextC, nextR, sessions, sockRooms, editPend>>

\* PUT /chat/messages/{message_id}, lines 236-273: the message is read and
\* checked, then the handler awaits the moderation of the new content
\* (MessageUpdate.content is optional; moderation runs when it is set)
EditMessageBegin(u, message_id, content, verdict) ==
    LET me == CurrentUserId(u)
        status == IF ~IsValidId(message_id) THEN "400"
                  ELSE IF ~Found(messages, ToOid(message_id)) THEN "404"
                  ELSE IF FindOne(messages, ToOid(message_id)).sender_id # me THEN "403"
                  ELSE IF FindOne(messages, ToOid(message_id)).deleted THEN "400"
                  ELSE IF content # NoContent /\ ~IsAppropriate(verdict) THEN "400"
                  ELSE "200"
    IN /\ IF status = "200"
          THEN /\ editPend' = editPend \cup
                      {[user |-> me, message_object_id |-> ToOid(message_id),
                        content |-> content,
                        room_id |-> FindOne(messages, ToOid(message_id)).room_id]}
               /\ UNCHANGED last
          ELSE /\ UNCHANGED editPend
               /\ last' = Outcome("edit_message", me, NoRoom, status,
                                  /\ IsValidId(message_id)
                                  /\ Found(messages, ToOid(message_id))
                                  /\ FindOne(messages, ToOid(message_id)).sender_id = me
                                  /\ ~FindOne(messages, ToOid(message_id)).deleted
                                  /\ content # NoContent,
                                  NoContent, NoEmit)
       /\ UNCHANGED <<serviceVars, friendVars, slideVars, studyVars, classrooms, rooms, messages, nextC, nextR, nextM, now,
                      sessions, sockRooms>>

\* {"$set": update_data} applied to one message document
ApplyEdit(m, content, at) ==
    [m EXCEPT !.content = IF content = NoContent THEN @ ELSE content,
              !.edited = TRUE,
              !.edited_at = at]

\* PUT /chat/messages/{message_id}, lines 275-301: update, re-read, broadcast
EditMessageCommit(p) ==
    /\ p \in editPend
    /\ editPend' = editPend \ {p}
    /\ IF Found(messages, p.message_object_id)
       THEN LET m == FindOne(messages, p.message_object_id)
            IN /\ messages' = (messages \ {m}) \cup {ApplyEdit(m, p.content, now)}
               /\ now' = now + 1
               /\ last' = Outcome("edit_message", p.user, ToStr(p.room_id), "200",
                                  p.content # NoContent, p.content,
                                  Emit("message_edited", ToStr(p.room_id),
                                       p.message_object_id))
       ELSE \* update_one matches nothing, Message(**None) raises
            /\ UNCHANGED <<messages, now>>
            /\ last' = Outcome("edit_message", p.user, ToStr(p.room_id), "500",
                               p.content # NoContent, NoContent, NoEmit)
    /\ UNCHANGED <<serviceVars, friendVars, slideVars, studyVars, classrooms, rooms, nextC, nextR, nextM, sessions, sockRooms>>

\* {"$set": {"deleted": True}} applied to one message document
MarkDeleted(m) == [m EXCEPT !.deleted = TRUE]

\* DELETE /chat/messages/{message_id}
DeleteMessage(u, message_id) ==
    LET me == CurrentUserId(u)
        status == IF ~IsValidId(message_id) THEN "400"
                  ELSE IF ~Found(messages, ToOid(message_id)) THEN "404"
                  ELSE IF FindOne(messages, ToOid(message_id)).sender_id # me THEN "403"
                  ELSE IF FindOne(messages, ToOid(message_id)).deleted THEN "400"
                  ELSE "200"
    IN /\ IF status = "200"
          THEN LET m == FindOne(messages, ToOid(message_id))
               IN /\ messages' = (messages \ {m}) \cup {MarkDeleted(m)}
                  /\ last' = Outcome("delete_message", me, ToStr(m.room_id), "200",
                                     FALSE, NoContent,
                                     Emit("message_deleted", ToStr(m.room_id), m._id))
          ELSE /\ UNCHANGED messages
               /\ last' = Outcome("delete_message", me, NoRoom, status, FALSE, NoContent, NoEmit)
       /\ UNCHANGED <<serviceVars, friendVars, slideVars, studyVars, classrooms, rooms, nextC, nextR, nextM, now, sessions,
                      sockRooms, editPend>>

\* POST /chat/rooms/{room_id}/summarize
SummarizeRoomChat(u, room_id) ==
    /\ last' = Outcome("http_summarize", CurrentUserId(u), room_id,
                       RoomAccessStatus(u, room_id), FALSE, NoContent, NoEmit)
    /\ UNCHANGED <<serviceVars, friendVars, slideVars, studyVars, classrooms, rooms, messages, nextC, nextR, nextM, now,
                   sessions, sockRooms, editPend>>

----------------------------------------------------------------------------
(* routers/friends.py.  Every handler is a coroutine: another request can  *)
(* run at each of its awaits.  A handler is therefore a sequence of steps, *)
(* one per database write it awaits; its position and local variables are *)
(* kept in friendOps.  Reads whose result no other request can change      *)
(* (users are never deleted) are taken together with the step before them. *)

Slots == 1..MaxInFlight
Idle == [op |-> "idle"]

RequestNums == 1..MaxFriendRequests
RequestOid(k) == Oid(50 + k)

\* A well-formed id that names no user
UnknownUserId == StrId(9)

UserIdInputs == {ToStr(UserOid(u)) : u \in Users} \cup {UnknownUserId, InvalidId}
RequestIdInputs == {ToStr(RequestOid(k)) : k \in RequestNums} \cup {InvalidId}

Elements(arr) == {arr[i] : i \in 1..Len(arr)}

\* db.users.find_one({"_id": id}): users are stored under ObjectIds
FindUser(id) == {u \in Users : UserOid(u) = id}

\* {"$addToSet": {"friends": x}} on one array
AddToSet(arr, x) == IF x \in Elements(arr) THEN arr ELSE Append(arr, x)

\* {"$pull": {"friends": {"$in": xs}}} on one array
Pull(arr, xs) == SelectSeq(arr, LAMBDA e : e \notin xs)

\* db.users.update_one({"_id": id}, {"$addToSet": {"friends": x}})
AddFriend(fr, id, x) ==
    [u \in Users |-> IF UserOid(u) = id THEN AddToSet(fr[u], x) ELSE fr[u]]

\* db.users.update_one({"_id": id}, {"$pull": {"friends": {"$in": xs}}})
PullFriends(fr, id, xs) ==
    [u \in Users |-> IF UserOid(u) = id THEN Pull(fr[u], xs) ELSE fr[u]]

\* db.friend_requests.update_one({"_id": id}, {"$set": {"status": st}})
SetRequestStatus(reqs, id, st) ==
    {IF r._id = id THEN [r EXCEPT !.status = st] ELSE r : r \in reqs}

FriendOutcome(op, u, status) ==
    Outcome(op, CurrentUserId(u), NoRoom, status, FALSE, NoContent, NoEmit)

\* POST /friends/send-request/{receiver_id}, up to the insert
SendFriendRequestBegin(s, u, receiver_id) ==
    LET me == CurrentUserId(u)
        receiver_object_id == ToOid(receiver_id)
        existing_request == {r \in friendRequests :
                                /\ r.sender_id = me
                                /\ r.receiver_id = receiver_object_id}
        reverse_request == {r \in friendRequests :
                               /\ r.sender_id = receiver_object_id
                               /\ r.receiver_id = me
                               /\ r.status = "pending"}
        status == IF ~IsValidId(receiver_id) THEN "400"
                  ELSE IF FindUser(receiver_object_id) = {} THEN "404"
                  ELSE IF receiver_object_id = me THEN "400"
                  ELSE IF receiver_object_id \in Elements(friends[u]) THEN "400"
                  ELSE IF existing_request # {} THEN "400"
                  ELSE IF reverse_request # {} THEN "400"
                  ELSE "200"
    IN /\ friendOps[s] = Idle
       /\ IF status = "200"
          THEN /\ friendOps' = [friendOps EXCEPT ![s] =
                      [op |-> "send", pc |-> "insert", user |-> u,
                       receiver_object_id |-> receiver_object_id]]
               /\ UNCHANGED last
          ELSE /\ UNCHANGED friendOps
               /\ last' = FriendOutcome("send_friend_request", u, status)
       /\ UNCHANGED <<serviceVars, friends, friendRequests, nextF, chatVars, slideVars, studyVars>>

\* FriendRequest(...).dict(): both PyObjectId fields are serialised with str()
NewFriendRequest(n, sender_id, receiver_id) ==
    [_id |-> RequestOid(n), sender_id |-> ToStr(sender_id),
     receiver_id |-> ToStr(receiver_id), status |-> "pending"]

\* The unique index on (sender_id, receiver_id), database.py:59
DuplicateKey(reqs, doc) ==
    \E r \in reqs : r.sender_id = doc.sender_id /\ r.receiver_id = doc.receiver_id

\* send_friend_request: the insert and the response
SendFriendRequestInsert(s) ==
    /\ friendOps[s] # Idle
    /\ friendOps[s].op = "send"
    /\ LET u == friendOps[s].user
           doc == NewFriendRequest(nextF + 1, CurrentUserId(u),
                                   friendOps[s].receiver_object_id)
       IN IF DuplicateKey(friendRequests, doc)
          THEN /\ UNCHANGED <<friendRequests, nextF>>
               /\ last' = FriendOutcome("send_friend_request", u, "400")
          ELSE /\ friendRequests' = friendRequests \cup {doc}
               /\ nextF' = nextF + 1
               /\ last' = FriendOutcome("send_friend_request", u, "200")
    /\ friendOps' = [friendOps EXCEPT ![s] = Idle]
    /\ UNCHANGED <<serviceVars, friends, chatVars, slideVars, studyVars>>

\* The lookup shared by accept and decline: the request, pending, addressed
\* to the caller in either id form
FindPendingRequest(request_object_id, me) ==
    {r \in friendRequests :
        /\ r._id = request_object_id
        /\ r.receiver_id \in {ToOid(me), ToStr(me)}
        /\ r.status = "pending"}

\* POST /friends/accept-request/{request_id}, up to the first write
AcceptFriendRequestBegin(s, u, request_id) ==
    LET me == CurrentUserId(u)
        hit == FindPendingRequest(ToOid(request_id), me)
        status == IF ~IsValidId(request_id) THEN "400"
                  ELSE IF hit = {} THEN "404"
                  ELSE "200"
    IN /\ friendOps[s] = Idle
       /\ IF status = "200"
          THEN /\ friendOps' = [friendOps EXCEPT ![s] =
                      [op |-> "accept", pc |-> "set_status", user |-> u,
                       request_object_id |-> ToOid(request_id),
                       sender_id |-> (CHOOSE r \in hit : TRUE).sender_id]]
               /\ UNCHANGED last
          ELSE /\ UNCHANGED friendOps
               /\ last' = FriendOutcome("accept_friend_request", u, status)
       /\ UNCHANGED <<serviceVars, friends, friendRequests, nextF, chatVars, slideVars, studyVars>>

\* accept_friend_request: status := accepted
AcceptFriendRequestSetStatus(s) ==
    /\ friendOps[s] # Idle
    /\ friendOps[s].op = "accept"
    /\ friendOps[s].pc = "set_status"
    /\ friendRequests' = SetRequestStatus(friendRequests,
                             friendOps[s].request_object_id, "accepted")
    /\ friendOps' = [friendOps EXCEPT ![s].pc = "add_sender"]
    /\ UNCHANGED <<serviceVars, friends, nextF, last, chatVars, slideVars, studyVars>>

\* The paired update of lines 207-215 (and 217-225): by ObjectId first, by
\* string when no document matched
AddFriendEitherForm(fr, owner, friend) ==
    IF FindUser(ToOid(owner)) # {}
    THEN AddFriend(fr, ToOid(owner), ToOid(friend))
    ELSE AddFriend(fr, ToStr(owner), ToStr(friend))

\* accept_friend_request: the sender joins the caller's friends
AcceptFriendRequestAddSender(s) ==
    /\ friendOps[s] # Idle
    /\ friendOps[s].op = "accept"
    /\ friendOps[s].pc = "add_sender"
    /\ friends' = AddFriendEitherForm(friends, CurrentUserId(friendOps[s].user),
                                      friendOps[s].sender_id)
    /\ friendOps' = [friendOps EXCEPT ![s].pc = "add_receiver"]
    /\ UNCHANGED <<serviceVars, friendRequests, nextF, last, chatVars, slideVars, studyVars>>

\* accept_friend_request: the caller joins the sender's friends; the response
AcceptFriendRequestAddReceiver(s) ==
    /\ friendOps[s] # Idle
    /\ friendOps[s].op = "accept"
    /\ friendOps[s].pc = "add_receiver"
    /\ friends' = AddFriendEitherForm(friends, friendOps[s].sender_id,
                                      CurrentUserId(friendOps[s].user))
    /\ friendOps' = [friendOps EXCEPT ![s] = Idle]
    /\ last' = FriendOutcome("accept_friend_request", friendOps[s].user, "200")
    /\ UNCHANGED <<serviceVars, friendRequests, nextF, chatVars, slideVars, studyVars>>

\* POST /friends/decline-request/{request_id}, up to the write
DeclineFriendRequestBegin(s, u, request_id) ==
    LET me == CurrentUserId(u)
        hit == FindPendingRequest(ToOid(request_id), me)
        status == IF ~IsValidId(request_id) THEN "400"
                  ELSE IF hit = {} THEN "404"
                  ELSE "200"
    IN /\ friendOps[s] = Idle
       /\ IF status = "200"
          THEN /\ friendOps' = [friendOps EXCEPT ![s] =
                      [op |-> "decline", pc |-> "set_status", user |-> u,
                       request_object_id |-> ToOid(request_id)]]
               /\ UNCHANGED last
          ELSE /\ UNCHANGED friendOps
               /\ last' = FriendOutcome("decline_friend_request", u, status)
       /\ UNCHANGED <<serviceVars, friends, friendRequests, nextF, chatVars, slideVars, studyVars>>

\* decline_friend_request: status := declined; the response
DeclineFriendRequestSetStatus(s) ==
    /\ friendOps[s] # Idle
    /\ friendOps[s].op = "decline"
    /\ friendRequests' = SetRequestStatus(friendRequests,
                             friendOps[s].request_object_id, "declined")
    /\ friendOps' = [friendOps EXCEPT ![s] = Idle]
    /\ last' = FriendOutcome("decline_friend_request", friendOps[s].user, "200")
    /\ UNCHANGED <<serviceVars, friends, nextF, chatVars, slideVars, studyVars>>

\* remove_friend, lines 303-306: the test on the caller's friends as loaded
\* by get_current_user
IsFriend(current_friends, friend_object_id) ==
    \/ friend_object_id \in Elements(current_friends)
    \/ ToStr(friend_object_id) \in Elements(current_friends)
    \/ ToStr(friend_object_id) \in {ToStr(f) : f \in Elements(current_friends)}

\* DELETE /friends/remove/{friend_id}, up to the first write
RemoveFriendBegin(s, u, friend_id) ==
    LET friend_object_id == ToOid(friend_id)
        status == IF ~IsValidId(friend_id) THEN "400"
                  ELSE IF /\ FindUser(friend_object_id) = {}
                          /\ FindUser(ToStr(friend_object_id)) = {} THEN "404"
                  ELSE IF ~IsFriend(friends[u], friend_object_id) THEN "400"
                  ELSE "200"
    IN /\ friendOps[s] = Idle
       /\ IF status = "200"
          THEN /\ friendOps' = [friendOps EXCEPT ![s] =
                      [op |-> "remove", pc |-> "pull_mine", user |-> u,
                       friend_object_id |-> friend_object_id]]
               /\ UNCHANGED last
          ELSE /\ UNCHANGED friendOps
               /\ last' = FriendOutcome("remove_friend", u, status)
       /\ UNCHANGED <<serviceVars, friends, friendRequests, nextF, chatVars, slideVars, studyVars>>

BothForms(id) == {ToOid(id), ToStr(id)}

\* remove_friend, lines 316-323: the friend leaves the caller's array
RemoveFriendPullMine(s) ==
    /\ friendOps[s] # Idle
    /\ friendOps[s].op = "remove"
    /\ friendOps[s].pc = "pull_mine"
    /\ LET me == CurrentUserId(friendOps[s].user)
           them == BothForms(friendOps[s].friend_object_id)
       IN friends' = PullFriends(PullFriends(friends, ToOid(me), them),
                                 ToStr(me), them)
    /\ friendOps' = [friendOps EXCEPT ![s].pc = "pull_theirs"]
    /\ UNCHANGED <<serviceVars, friendRequests, nextF, last, chatVars, slideVars, studyVars>>

\* remove_friend, lines 326-333: the caller leaves the friend's array
RemoveFriendPullTheirs(s) ==
    /\ friendOps[s] # Idle
    /\ friendOps[s].op = "remove"
    /\ friendOps[s].pc = "pull_theirs"
    /\ LET me == BothForms(CurrentUserId(friendOps[s].user))
           friend_object_id == friendOps[s].friend_object_id
       IN friends' = PullFriends(PullFriends(friends, friend_object_id, me),
                                 ToStr(friend_object_id), me)
    /\ friendOps' = [friendOps EXCEPT ![s].pc = "delete_requests"]
    /\ UNCHANGED <<serviceVars, friendRequests, nextF, last, chatVars, slideVars, studyVars>>

\* remove_friend, lines 336-343: delete_many in both directions, both forms
DeleteRequestsBetween(reqs, me, friend_object_id) ==
    {r \in reqs :
        ~ \/ /\ r.sender_id \in BothForms(me)
             /\ r.receiver_id \in BothForms(friend_object_id)
          \/ /\ r.sender_id \in BothForms(friend_object_id)
             /\ r.receiver_id \in BothForms(me)}

\* remove_friend, lines 346-354: update_many with the ids as the handler
\* holds them (the caller's as a string, the friend's as an ObjectId)
DeclineRequestsBetween(reqs, me, friend_object_id) ==
    {IF \/ r.sender_id = me /\ r.receiver_id = friend_object_id
        \/ r.sender_id = friend_object_id /\ r.receiver_id = me
     THEN [r EXCEPT !.status = "declined"] ELSE r : r \in reqs}

\* remove_friend: the requests between the two are removed; the response
RemoveFriendDeleteRequests(s) ==
    /\ friendOps[s] # Idle
    /\ friendOps[s].op = "remove"
    /\ friendOps[s].pc = "delete_requests"
    /\ LET me == CurrentUserId(friendOps[s].user)
           friend_object_id == friendOps[s].friend_object_id
       IN friendRequests' = DeclineRequestsBetween(
              DeleteRequestsBetween(friendRequests, me, friend_object_id),
              me, friend_object_id)
    /\ friendOps' = [friendOps EXCEPT ![s] = Idle]
    /\ last' = FriendOutcome("remove_friend", friendOps[s].user, "200")
    /\ UNCHANGED <<serviceVars, friends, nextF, chatVars, slideVars, studyVars>>

----------------------------------------------------------------------------
(* routers/notes.py: document sessions and slide generation.  The request  *)
(* handler generate_document_slides awaits its ownership lookup and its    *)
(* status update separately; the job process_document_slide_generation     *)
(* runs as a background task after the response and awaits the generators *)
(* and then its one final update.                                          *)

SessionNums == 1..MaxDocSessions
SessionOid(k) == Oid(40 + k)
SessionIdInputs == {ToStr(SessionOid(k)) : k \in SessionNums} \cup {InvalidId}

\* db.documents: every user has uploaded one document
DocumentOid(u) == Oid(60 + u)
DocumentOwner(document_object_id) == {u \in Users : DocumentOid(u) = document_object_id}
DocumentIdInputs == {ToStr(DocumentOid(u)) : u \in Users} \cup {InvalidId}

NoUrl == <<"None">>

\* f"/static/slides/document_{session_id}/slides_{session_id}.pdf"
PdfUrl(session_id) == <<"pdf", ToStr(session_id)>>

\* f"/static/slides/document_{session_id}/slide_{i+1}.png"
ImageUrl(session_id, i) == <<"png", ToStr(session_id), i>>

\* The slides of a content plan, and the slides whose image was produced
SlideNums == 1..MaxSlides

RECURSIVE ImageUrls(_, _, _)
\* image_urls: one url per slide whose image was generated, in slide order
ImageUrls(session_id, generated, i) ==
    IF i > MaxSlides THEN <<>>
    ELSE (IF i \in generated THEN <<ImageUrl(session_id, i)>> ELSE <<>>)
         \o ImageUrls(session_id, generated, i + 1)

SlideOutcome(op, u, status) ==
    Outcome(op, CurrentUserId(u), NoRoom, status, FALSE, NoContent, NoEmit)

\* db.document_sessions.find_one({"_id": id, "user_id": ObjectId(current_user.id)})
FindOwnSession(session_object_id, u) ==
    {d \in docSessions : d._id = session_object_id /\ d.user_id = ToOid(CurrentUserId(u))}

\* POST /notes/sessions
CreateDocumentSession(u, document_id) ==
    LET status == IF ~IsValidId(document_id) THEN "400"
                  ELSE IF u \notin DocumentOwner(ToOid(document_id)) THEN "404"
                  ELSE "200"
    IN /\ IF status = "200"
          THEN /\ docSessions' = docSessions \cup
                      {[_id |-> SessionOid(nextS + 1),
                        user_id |-> ToOid(CurrentUserId(u)),
                        document_id |-> ToOid(document_id),
                        has_summary |-> FALSE,
                        chat_history |-> <<>>,
                        imported_from |-> NoField,
                        slides_pdf_url |-> NoUrl,
                        slides_status |-> "pending",
                        generated_slide_images |-> <<>>]}
               /\ nextS' = nextS + 1
          ELSE UNCHANGED <<docSessions, nextS>>
       /\ last' = SlideOutcome("create_document_session", u, status)
       /\ UNCHANGED <<serviceVars, slideReqs, slideJobs, nextQ, finalLog, chatVars, friendVars, studyVars>>

\* DELETE /notes/sessions/{session_id}
DeleteDocumentSession(u, session_id) ==
    LET status == IF ~IsValidId(session_id) THEN "400"
                  ELSE IF FindOwnSession(ToOid(session_id), u) = {} THEN "404"
                  ELSE "200"
    IN /\ IF status = "200"
          THEN docSessions' = docSessions \ FindOwnSession(ToOid(session_id), u)
          ELSE UNCHANGED docSessions
       /\ last' = SlideOutcome("delete_document_session", u, status)
       /\ UNCHANGED <<serviceVars, slideReqs, slideJobs, nextS, nextQ, finalLog, chatVars, friendVars, studyVars>>

\* {"$set": fields} applied to one document
SetFields(d, fields) ==
    [k \in DOMAIN d |-> IF k \in DOMAIN fields THEN fields[k] ELSE d[k]]

\* db.document_sessions.update_one({"_id": id}, {"$set": fields})
UpdateSession(sess, session_object_id, fields) ==
    {IF d._id = session_object_id THEN SetFields(d, fields) ELSE d : d \in sess}

\* The $set of lines 694-700
SetSummaries == [has_summary |-> TRUE]

\* POST /notes/sessions/{session_id}/summarize; generated tells whether
\* ai_service.generate_document_summaries returned
SummarizeDocumentSession(u, session_id, generated) ==
    LET status == IF ~IsValidId(session_id) THEN "400"
                  ELSE IF FindOwnSession(ToOid(session_id), u) = {} THEN "404"
                  ELSE IF ~generated THEN "500"
                  ELSE "200"
    IN /\ IF status = "200"
          THEN docSessions' = UpdateSession(docSessions, ToOid(session_id), SetSummaries)
          ELSE UNCHANGED docSessions
       /\ last' = SlideOutcome("summarize_document_session", u, status)
       /\ UNCHANGED <<serviceVars, slideReqs, slideJobs, nextS, nextQ, finalLog, chatVars, friendVars, studyVars>>

\* POST /notes/sessions/{session_id}/slides, up to the status update
GenerateDocumentSlidesBegin(u, session_id) ==
    LET hit == FindOwnSession(ToOid(session_id), u)
        status == IF ~IsValidId(session_id) THEN "400"
                  ELSE IF hit = {} THEN "404"
                  ELSE IF ~(CHOOSE d \in hit : TRUE).has_summary THEN "400"
                  ELSE "200"
    IN /\ IF status = "200"
          THEN /\ slideReqs' = slideReqs \cup
                      {[n |-> nextQ + 1, user |-> u,
                        session_object_id |-> ToOid(session_id)]}
               /\ nextQ' = nextQ + 1
               /\ UNCHANGED last
          ELSE /\ UNCHANGED <<slideReqs, nextQ>>
               /\ last' = SlideOutcome("generate_document_slides", u, status)
       /\ UNCHANGED <<serviceVars, docSessions, slideJobs, nextS, finalLog, chatVars, friendVars, studyVars>>

\* The $set of line 1122
SetProcessing == [slides_status |-> "processing"]

\* generate_document_slides, lines 1119-1128: status := processing, the job
\* is queued, the response
GenerateDocumentSlidesCommit(r) ==
    /\ r \in slideReqs
    /\ docSessions' = UpdateSession(docSessions, r.session_object_id, SetProcessing)
    /\ slideJobs' = Append(slideJobs, [session_id |-> r.session_object_id,
                                       pc |-> "generate",
                                       image_urls |-> <<>>])
    /\ slideReqs' = slideReqs \ {r}
    /\ last' = SlideOutcome("generate_document_slides", r.user, "processing")
    /\ UNCHANGED <<serviceVars, nextS, nextQ, finalLog, chatVars, friendVars, studyVars>>

\* process_document_slide_generation, lines 1029-1064: the content plan, the
\* images (a failed image is logged and skipped) and the PDF.  planned and
\* assembled tell whether generate_slides_content and create_slides_pdf
\* returned; generated is the set of slides whose image was produced.
ProcessSlidesGenerate(j, planned, generated, assembled) ==
    /\ j \in 1..Len(slideJobs)
    /\ slideJobs[j].pc = "generate"
    /\ LET job == slideJobs[j]
       IN slideJobs' = [slideJobs EXCEPT ![j] =
              IF planned /\ assembled
              THEN [job EXCEPT !.pc = "update",
                               !.image_urls = ImageUrls(job.session_id, generated, 1)]
              ELSE [job EXCEPT !.pc = "except"]]
    /\ UNCHANGED <<serviceVars, docSessions, slideReqs, nextS, nextQ, finalLog, last,
                   chatVars, friendVars, studyVars>>

\* A final update that leaves the stored images as they are
SetCompleted_WithoutImages(pdf_url, image_urls) ==
    [slides_pdf_url |-> pdf_url,
     slides_status |-> "completed"]

\* The $set of lines 1067-1076
SetCompleted(pdf_url, image_urls) ==
    [slides_pdf_url |-> pdf_url,
     generated_slide_images |-> image_urls,
     slides_status |-> "completed"]

\* process_document_slide_generation: the final update
ProcessSlidesUpdate(j) ==
    /\ j \in 1..Len(slideJobs)
    /\ slideJobs[j].pc = "update"
    /\ LET job == slideJobs[j]
       IN docSessions' = UpdateSession(docSessions, job.session_id,
              SetCompleted(PdfUrl(job.session_id), job.image_urls))
    /\ slideJobs' = [slideJobs EXCEPT ![j].pc = "completed"]
    /\ finalLog' = Append(finalLog, j)
    /\ UNCHANGED <<serviceVars, slideReqs, nextS, nextQ, last, chatVars, friendVars, studyVars>>

\* The $set of line 1084
SetFailed == [slides_status |-> "failed"]

\* process_document_slide_generation, lines 1079-1087: the except branch
ProcessSlidesExcept(j) ==
    /\ j \in 1..Len(slideJobs)
    /\ slideJobs[j].pc = "except"
    /\ docSessions' = UpdateSession(docSessions, slideJobs[j].session_id, SetFailed)
    /\ slideJobs' = [slideJobs EXCEPT ![j].pc = "failed"]
    /\ UNCHANGED <<serviceVars, slideReqs, nextS, nextQ, finalLog, last, chatVars, friendVars, studyVars>>

----------------------------------------------------------------------------
(* routers/notes.py and routers/youtube.py: reading, sharing and chatting *)

StudySessionNums == 1..MaxStudySessions
StudySessionIdInputs == {ToStr(SessionOid(k)) : k \in StudySessionNums} \cup {InvalidId}

YouTubeNums == 1..MaxYouTubeSessions
YouTubeOid(k) == Oid(70 + k)
YouTubeIdInputs == {ToStr(YouTubeOid(k)) : k \in YouTubeNums} \cup {InvalidId}

Questions == {"q1", "q2"}

\* What the chat model call gives back: an answer, or its failure
Replies == {"answered", "failed"}

\* GET /notes/sessions/{session_id}: the documents the handler returns
GetDocumentSessionStatus(u, session_id) ==
    IF ~IsValidId(session_id) THEN "400"
    ELSE IF FindOwnSession(ToOid(session_id), u) = {} THEN "404"
    ELSE "200"

GetDocumentSessionResult(u, session_id) ==
    IF GetDocumentSessionStatus(u, session_id) = "200"
    THEN FindOwnSession(ToOid(session_id), u)
    ELSE {}

GetDocumentSession(u, session_id) ==
    /\ last' = SlideOutcome("get_document_session", u,
                            GetDocumentSessionStatus(u, session_id))
    /\ UNCHANGED <<serviceVars, chatVars, friendVars, slideVars, studyVars>>

\* db.document_sessions.find_one({"_id": session_object_id}): any user's session
FindAnySession(session_object_id) ==
    {d \in docSessions : d._id = session_object_id}

\* find_one({"user_id": ObjectId(current_user.id), "imported_from": session_id})
FindExistingImport(u, session_id) ==
    {d \in docSessions : /\ d.user_id = ToOid(CurrentUserId(u))
                         /\ d.imported_from = session_id}

\* The clone of lines 1190-1206
NewImportedSession(sid, u, original, session_id) ==
    [_id |-> sid,
     user_id |-> ToOid(CurrentUserId(u)),
     document_id |-> original.document_id,
     has_summary |-> original.has_summary,
     chat_history |-> <<>>,
     imported_from |-> session_id,
     slides_pdf_url |-> original.slides_pdf_url,
     slides_status |-> original.slides_status,
     generated_slide_images |-> original.generated_slide_images]

\* POST /notes/sessions/{session_id}/import
ImportSharedDocumentSession(u, session_id) ==
    LET found == IF IsValidId(session_id) THEN FindAnySession(ToOid(session_id)) ELSE {}
        result == IF ~IsValidId(session_id) THEN "400"
                  ELSE IF found = {} THEN "404"
                  ELSE IF \E d \in found : ToStr(d.user_id) = CurrentUserId(u)
                       THEN "already_owned"
                  ELSE IF FindExistingImport(u, session_id) # {} THEN "already_imported"
                  ELSE "imported"
    IN /\ IF result = "imported"
          THEN /\ docSessions' = docSessions \cup
                      {NewImportedSession(SessionOid(nextS + 1), u,
                                          CHOOSE d \in found : TRUE, session_id)}
               /\ nextS' = nextS + 1
          ELSE UNCHANGED <<docSessions, nextS>>
       /\ last' = SlideOutcome("import_shared_document_session", u, result)
       /\ UNCHANGED <<serviceVars, slideReqs, slideJobs, nextQ, finalLog, chatVars, friendVars, studyVars>>

\* The two records of one chat turn
UserMessage(message) == [role |-> "user", content |-> <<message>>]
AssistantMessage(message, reply) ==
    [role |-> "assistant",
     content |-> IF reply = "answered" THEN <<"answer", message>> ELSE <<"apology">>]

\* {"$push": {"chat_history": {"$each": records}}} that pushes the first record only
PushEach_FirstOnly(d, records) ==
    [d EXCEPT !.chat_history = @ \o SubSeq(records, 1, 1)]

\* {"$push": {"chat_history": {"$each": records}}} applied to one document
PushEach(d, records) ==
    [d EXCEPT !.chat_history = @ \o records]

\* update_one({"_id": session_object_id}, {"$push": ...})
PushChatHistory(sess, session_object_id, records) ==
    {IF d._id = session_object_id THEN PushEach(d, records) ELSE d : d \in sess}

ChatOutcome(op, user_id, status) ==
    Outcome(op, user_id, NoRoom, status, FALSE, NoContent, NoEmit)

NewTurn(n, kind, u, session_object_id, message) ==
    [n |-> n, kind |-> kind, user |-> CurrentUserId(u),
     session_id |-> session_object_id, message |-> message]

\* chat_with_document_session, lines 716-748: up to the model call
ChatWithDocumentSessionBegin(u, session_id, message) ==
    LET status == IF ~IsValidId(session_id) THEN "400"
                  ELSE IF FindOwnSession(ToOid(session_id), u) = {} THEN "404"
                  ELSE "pending"
    IN /\ IF status = "pending"
          THEN /\ chatTurns' = chatTurns \cup
                      {NewTurn(nextT + 1, "document", u, ToOid(session_id), message)}
               /\ nextT' = nextT + 1
          ELSE UNCHANGED <<chatTurns, nextT>>
       /\ last' = ChatOutcome("chat_with_document_session", CurrentUserId(u), status)
       /\ UNCHANGED <<serviceVars, ytSessions, nextY, chatVars, friendVars, slideVars>>

\* chat_with_document_session, lines 749-783: the model call returned; updated
\* tells whether update_one returned or raised
ChatWithDocumentSessionCommit(t, reply, updated) ==
    /\ t \in chatTurns
    /\ t.kind = "document"
    /\ chatTurns' = chatTurns \ {t}
    /\ IF updated
       THEN docSessions' = PushChatHistory(docSessions, t.session_id,
                               <<UserMessage(t.message), AssistantMessage(t.message, reply)>>)
       ELSE UNCHANGED docSessions
    /\ last' = ChatOutcome("chat_with_document_session", t.user,
                           IF updated THEN "200" ELSE "500")
    /\ UNCHANGED <<serviceVars, slideReqs, slideJobs, nextS, nextQ, finalLog,
                   ytSessions, nextY, nextT, chatVars, friendVars>>

\* The $set of line 814
SetNoHistory == [chat_history |-> <<>>]

\* POST /notes/sessions/{session_id}/chat/clear
ClearSessionChatHistory(u, session_id) ==
    LET status == IF ~IsValidId(session_id) THEN "400"
                  ELSE IF FindOwnSession(ToOid(session_id), u) = {} THEN "404"
                  ELSE "200"
    IN /\ IF status = "200"
          THEN docSessions' = UpdateSession(docSessions, ToOid(session_id), SetNoHistory)
          ELSE UNCHANGED docSessions
       /\ last' = ChatOutcome("clear_session_chat_history", CurrentUserId(u), status)
       /\ UNCHANGED <<serviceVars, slideReqs, slideJobs, nextS, nextQ, finalLog,
                      chatVars, friendVars, studyVars>>

\* What youtube_service.process_youtube_video does within asyncio.wait_for
Processings == {"result", "error", "incomplete", "timeout"}

\* The exception raised inside the try block of lines 32-85, "200" when none is
ProcessingStatus(processing) ==
    IF processing = "timeout" THEN "408"
    ELSE IF processing = "error" THEN "400"
    ELSE IF processing = "incomplete" THEN "500"
    ELSE "200"

\* lines 87-92: except Exception turns whatever was raised into a 500
Reraised(raised) == IF raised = "200" THEN "200" ELSE "500"

\* find_one({"_id": id, "user_id": current_user.id}) on youtube_sessions
FindOwnYouTubeSession(session_object_id, u) ==
    {d \in ytSessions : d._id = session_object_id /\ d.user_id = CurrentUserId(u)}

\* POST /youtube/sessions
CreateYouTubeSession(u, processing) ==
    LET status == Reraised(ProcessingStatus(processing))
    IN /\ IF status = "200"
          THEN /\ ytSessions' = ytSessions \cup
                      {[_id |-> YouTubeOid(nextY + 1),
                        user_id |-> CurrentUserId(u),
                        transcript |-> TRUE,
                        chat_history |-> <<>>]}
               /\ nextY' = nextY + 1
          ELSE UNCHANGED <<ytSessions, nextY>>
       /\ last' = ChatOutcome("create_youtube_session", CurrentUserId(u), status)
       /\ UNCHANGED <<serviceVars, chatTurns, nextT, chatVars, friendVars, slideVars>>

\* GET /youtube/sessions/{session_id}
GetYouTubeSessionStatus(u, session_id) ==
    IF ~IsValidId(session_id) THEN "400"
    ELSE IF FindOwnYouTubeSession(ToOid(session_id), u) = {} THEN "404"
    ELSE "200"

GetYouTubeSessionResult(u, session_id) ==
    IF GetYouTubeSessionStatus(u, session_id) = "200"
    THEN FindOwnYouTubeSession(ToOid(session_id), u)
    ELSE {}

GetYouTubeSession(u, session_id) ==
    /\ last' = ChatOutcome("get_youtube_session", CurrentUserId(u),
                           GetYouTubeSessionStatus(u, session_id))
    /\ UNCHANGED <<serviceVars, chatVars, friendVars, slideVars, studyVars>>

\* DELETE /youtube/sessions/{session_id}
DeleteYouTubeSession(u, session_id) ==
    LET status == IF ~IsValidId(session_id) THEN "400"
                  ELSE IF FindOwnYouTubeSession(ToOid(session_id), u) = {} THEN "404"
                  ELSE "200"
    IN /\ IF status = "200"
          THEN ytSessions' = ytSessions \ FindOwnYouTubeSession(ToOid(session_id), u)
          ELSE UNCHANGED ytSessions
       /\ last' = ChatOutcome("delete_youtube_session", CurrentUserId(u), status)
       /\ UNCHANGED <<serviceVars, nextY, chatTurns, nextT, chatVars, friendVars, slideVars>>

\* chat_with_transcript, lines 163-199: up to the model call
ChatWithTranscriptBegin(u, session_id, question) ==
    LET own == IF IsValidId(session_id)
               THEN FindOwnYouTubeSession(ToOid(session_id), u) ELSE {}
        status == IF ~IsValidId(session_id) THEN "400"
                  ELSE IF own = {} THEN "404"
                  ELSE IF \E d \in own : ~d.transcript THEN "400"
                  ELSE "pending"
    IN /\ IF status = "pending"
          THEN /\ chatTurns' = chatTurns \cup
                      {NewTurn(nextT + 1, "youtube", u, ToOid(session_id), question)}
               /\ nextT' = nextT + 1
          ELSE UNCHANGED <<chatTurns, nextT>>
       /\ last' = ChatOutcome("chat_with_transcript", CurrentUserId(u), status)
       /\ UNCHANGED <<serviceVars, ytSessions, nextY, chatVars, friendVars, slideVars>>

\* chat_with_transcript, lines 200-240: answer_question returned an answer or
\* None; updated tells whether update_one returned or raised
ChatWithTranscriptCommit(t, reply, updated) ==
    /\ t \in chatTurns
    /\ t.kind = "youtube"
    /\ chatTurns' = chatTurns \ {t}
    /\ IF reply = "answered" /\ updated
       THEN ytSessions' = PushChatHistory(ytSessions, t.session_id,
                              <<UserMessage(t.message), AssistantMessage(t.message, reply)>>)
       ELSE UNCHANGED ytSessions
    /\ last' = ChatOutcome("chat_with_transcript", t.user,
                           IF reply = "answered" /\ updated THEN "200" ELSE "500")
    /\ UNCHANGED <<serviceVars, nextY, nextT, chatVars, friendVars, slideVars>>

----------------------------------------------------------------------------
(* routers/classrooms.py: concurrent creation, members and room management *)

ManagedClassroomIdInputs ==
    {ToStr(ClassroomOid(k)) : k \in 1..MaxManagedClassrooms}
ManagedRoomIdInputs ==
    {ToStr(RoomOid(k)) : k \in 1..MaxManagedRooms}

\* What generate_invite_code can return
GeneratedInviteCodes == {"X7K9QP2L", "M3T8ZW5R"}

\* RoomUpdate.name = None
NoName == "None"

AdminOutcome(op, user_id, room_id, status) ==
    Outcome(op, user_id, room_id, status, FALSE, NoContent, NoEmit)

\* create_classroom, lines 25-40: the while loop ends with a code that no
\* stored classroom has; the handler then awaits its insert
CreateClassroomBegin(s, u, code) ==
    /\ createPend[s] = Idle
    /\ code \notin UsedInviteCodes
    /\ createPend' = [createPend EXCEPT ![s] =
                         [op |-> "create", pc |-> "insert", user |-> u,
                          invite_code |-> code, classroom_id |-> NoField]]
    /\ UNCHANGED <<chatVars, last, friendVars, slideVars, studyVars, restVars>>

\* create_classroom, lines 42-43: db.classrooms.insert_one(classroom_dict)
CreateClassroomInsert(s) ==
    /\ createPend[s] # Idle
    /\ createPend[s].pc = "insert"
    /\ classrooms' = classrooms \cup
           {NewClassroom(ClassroomOid(nextC + 1),
                         CurrentUserId(createPend[s].user),
                         createPend[s].invite_code)}
    /\ nextC' = nextC + 1
    /\ createPend' = [createPend EXCEPT ![s].pc = "general",
                                        ![s].classroom_id = ClassroomOid(nextC + 1)]
    /\ UNCHANGED <<rooms, messages, nextR, nextM, now, sessions, sockRooms, editPend,
                   last, friendVars, slideVars, studyVars, restVars>>

\* create_classroom, lines 45-62: the General room is inserted, with the
\* classroom_id that RoomCreate(...).dict() holds as a string; the response
CreateClassroomGeneral(s) ==
    /\ createPend[s] # Idle
    /\ createPend[s].pc = "general"
    /\ rooms' = rooms \cup {[_id |-> RoomOid(nextR + 1),
                             classroom_id |-> ToStr(createPend[s].classroom_id),
                             name |-> "General"]}
    /\ nextR' = nextR + 1
    /\ createPend' = [createPend EXCEPT ![s] = Idle]
    /\ last' = AdminOutcome("create_classroom", CurrentUserId(createPend[s].user),
                            NoRoom, "200")
    /\ UNCHANGED <<classrooms, messages, nextC, nextM, now, sessions, sockRooms,
                   editPend, friendVars, slideVars, studyVars, restVars>>

\* POST /classrooms/{classroom_id}/add-member/{user_id}
AddMemberToClassroom(u, classroom_id, user_id) ==
    LET me == CurrentUserId(u)
        status ==
            IF ~IsValidId(classroom_id) \/ ~IsValidId(user_id) THEN "400"
            ELSE IF ~Found(classrooms, ToOid(classroom_id)) THEN "404"
            ELSE IF ToStr(FindOne(classrooms, ToOid(classroom_id)).admin_id) # ToStr(me)
                 THEN "403"
            ELSE IF FindUser(ToOid(user_id)) = {} THEN "404"
            ELSE IF ToOid(user_id) \in FindOne(classrooms, ToOid(classroom_id)).members
                 THEN "400"
            ELSE IF ToStr(ToOid(user_id)) \notin {ToStr(f) : f \in Elements(friends[u])}
                 THEN "400"
            ELSE "200"
    IN /\ IF status = "200"
          THEN LET classroom == FindOne(classrooms, ToOid(classroom_id))
               IN classrooms' = (classrooms \ {classroom}) \cup
                      {[classroom EXCEPT !.members = @ \cup {ToOid(user_id)}]}
          ELSE UNCHANGED classrooms
       /\ last' = AdminOutcome("add_member_to_classroom", me, NoRoom, status)
       /\ UNCHANGED <<rooms, messages, nextC, nextR, nextM, now, sessions, sockRooms,
                      editPend, friendVars, slideVars, studyVars, serviceVars>>

\* The unique index on (classroom_id, name), database.py:49, seen by an
\* update of room to the given name
DuplicateRoomName(room, name) ==
    \E r \in rooms : /\ r._id # room._id
                     /\ r.classroom_id = room.classroom_id
                     /\ r.name = name

\* PUT /classrooms/{classroom_id}/rooms/{room_id}; name is RoomUpdate.name
UpdateRoom(u, classroom_id, room_id, name) ==
    LET me == CurrentUserId(u)
        status == IF ~IsValidId(classroom_id) \/ ~IsValidId(room_id) THEN "400"
                  ELSE IF ~Found(classrooms, ToOid(classroom_id)) THEN "404"
                  ELSE IF FindOne(classrooms, ToOid(classroom_id)).admin_id # me
                       THEN "403"
                  ELSE IF ~Found(rooms, ToOid(room_id)) THEN "404"
                  ELSE IF name # NoName /\ DuplicateRoomName(FindOne(rooms, ToOid(room_id)), name)
                       THEN "500"
                  ELSE "200"
    IN /\ IF status = "200" /\ name # NoName
          THEN rooms' = {IF r._id = ToOid(room_id) THEN [r EXCEPT !.name = name] ELSE r :
                            r \in rooms}
          ELSE UNCHANGED rooms
       /\ last' = AdminOutcome("update_room", me, room_id, status)
       /\ UNCHANGED <<classrooms, messages, nextC, nextR, nextM, now, sessions,
                      sockRooms, editPend, friendVars, slideVars, studyVars, serviceVars>>

----------------------------------------------------------------------------
(* routers/auth.py: registration and e-mail verification *)

Emails == {"amna@uni.edu", "bilal@uni.edu"}

\* What generate_verification_code can return
VerificationCodes == {"481516", "234200"}

\* UserCreate.student_id; NoStudentId when the form leaves it out
NoStudentId == ""
StudentIds == {NoStudentId, "S-1001"}

\* timedelta(minutes=10), the unit of utcnow
CodeLifetime == 1

\* email not in verification_codes
NoEntry == [code |-> "None"]

\* "user_data": None, as resend_verification stores it
NoUserData == [email |-> "None"]

UserData(email, student_id) == [email |-> email, student_id |-> student_id]

AuthOutcome(op, status) ==
    Outcome(op, NoUser, NoRoom, status, FALSE, NoContent, NoEmit)

\* db.users.find_one({"email": email})
FindUserByEmail(email) == {u \in userDocs : u.email = email}

\* db.users.find_one({"student_id": student_id})
FindUserByStudentId(student_id) == {u \in userDocs : u.student_id = student_id}

\* register, lines 28-34: the e-mail lookup
RegisterBegin(s, email, student_id) ==
    /\ authOps[s] = Idle
    /\ nextA' = nextA + 1
    /\ IF FindUserByEmail(email) # {}
       THEN /\ last' = AuthOutcome("register", "400")
            /\ UNCHANGED authOps
       ELSE /\ authOps' = [authOps EXCEPT ![s] =
                   [op |-> "register",
                    pc |-> IF student_id # NoStudentId THEN "student" ELSE "store",
                    user_data |-> UserData(email, student_id)]]
            /\ last' = AuthOutcome("register", "pending")
    /\ UNCHANGED <<userDocs, verification_codes, utcnow, createPend,
                   chatVars, friendVars, slideVars, studyVars,
                   retryVars, marketVars>>

\* register, lines 37-43: the student_id lookup
RegisterFindStudent(s) ==
    /\ authOps[s].op = "register"
    /\ authOps[s].pc = "student"
    /\ IF FindUserByStudentId(authOps[s].user_data.student_id) # {}
       THEN /\ authOps' = [authOps EXCEPT ![s] = Idle]
            /\ last' = AuthOutcome("register", "400")
       ELSE /\ authOps' = [authOps EXCEPT ![s].pc = "store"]
            /\ UNCHANGED last
    /\ UNCHANGED <<userDocs, verification_codes, utcnow, nextA, createPend,
                   chatVars, friendVars, slideVars, studyVars,
                   retryVars, marketVars>>

\* The entry of lines 50-54
NewEntry(code, user_data) ==
    [code |-> code, expires_at |-> utcnow + CodeLifetime, user_data |-> user_data]

\* register, lines 45-65: the code is generated and stored, the mail sent
RegisterStore(s, code) ==
    /\ authOps[s].op = "register"
    /\ authOps[s].pc = "store"
    /\ verification_codes' =
           [verification_codes EXCEPT ![authOps[s].user_data.email] =
                NewEntry(code, authOps[s].user_data)]
    /\ authOps' = [authOps EXCEPT ![s] = Idle]
    /\ last' = AuthOutcome("register", "200")
    /\ UNCHANGED <<userDocs, utcnow, nextA, createPend,
                   chatVars, friendVars, slideVars, studyVars,
                   retryVars, marketVars>>

\* POST /auth/resend-verification, lines 265-298
ResendVerification(email, code) ==
    LET status == IF FindUserByEmail(email) = {} THEN "404"
                  ELSE IF \E u \in FindUserByEmail(email) : u.is_verified THEN "400"
                  ELSE "200"
    IN /\ IF status = "200"
          THEN verification_codes' =
                   [verification_codes EXCEPT ![email] = NewEntry(code, NoUserData)]
          ELSE UNCHANGED verification_codes
       /\ last' = AuthOutcome("resend_verification", status)
       /\ UNCHANGED <<userDocs, authOps, utcnow, nextA, createPend,
                      chatVars, friendVars, slideVars, studyVars,
                   retryVars, marketVars>>

\* The test of lines 92-93 that accepts whatever code is presented
CodeRejected_ExpiryOnly(stored_data, code) ==
    stored_data.expires_at < utcnow

\* The test of lines 92-93
CodeRejected(stored_data, code) ==
    \/ stored_data.code # code
    \/ stored_data.expires_at < utcnow

\* verify_email, lines 74-100: what the handler answers before its insert
VerifyEmailStatus(email, code) ==
    IF verification_codes[email] = NoEntry THEN "400"
    ELSE IF CodeRejected(verification_codes[email], code) THEN "400"
    ELSE IF verification_codes[email].user_data = NoUserData THEN "500"
    ELSE "pending"

\* verify_email, lines 74-119: up to the awaited insert
VerifyEmailBegin(s, email, code) ==
    /\ authOps[s] = Idle
    /\ nextA' = nextA + 1
    /\ IF VerifyEmailStatus(email, code) = "pending"
       THEN authOps' = [authOps EXCEPT ![s] =
                [op |-> "verify", pc |-> "insert", email |-> email, code |-> code,
                 user_data |-> verification_codes[email].user_data]]
       ELSE UNCHANGED authOps
    /\ last' = AuthOutcome("verify_email", VerifyEmailStatus(email, code))
    /\ UNCHANGED <<userDocs, verification_codes, utcnow, createPend,
                   chatVars, friendVars, slideVars, studyVars,
                   retryVars, marketVars>>

\* The unique indexes of database.py:39-40: email, and student_id where present
DuplicateUser(user_data) ==
    \/ FindUserByEmail(user_data.email) # {}
    \/ /\ user_data.student_id # NoStudentId
       /\ FindUserByStudentId(user_data.student_id) # {}

UserDocOid(k) == Oid(80 + k)

\* user_dict of lines 103-117
NewUserDoc(user_data) ==
    [_id |-> UserDocOid(Cardinality(userDocs) + 1),
     email |-> user_data.email,
     student_id |-> user_data.student_id,
     is_verified |-> TRUE]

\* verify_email, line 119: db.users.insert_one(user_dict)
VerifyEmailInsert(s) ==
    /\ authOps[s].op = "verify"
    /\ authOps[s].pc = "insert"
    /\ IF DuplicateUser(authOps[s].user_data)
       THEN /\ authOps' = [authOps EXCEPT ![s] = Idle]
            /\ last' = AuthOutcome("verify_email", "500")
            /\ UNCHANGED userDocs
       ELSE /\ userDocs' = userDocs \cup {NewUserDoc(authOps[s].user_data)}
            /\ authOps' = [authOps EXCEPT ![s].pc = "remove"]
            /\ UNCHANGED last
    /\ UNCHANGED <<verification_codes, utcnow, nextA, createPend,
                   chatVars, friendVars, slideVars, studyVars,
                   retryVars, marketVars>>

\* verify_email, lines 122-145: del verification_codes[email], the response
VerifyEmailRemove(s) ==
    /\ authOps[s].op = "verify"
    /\ authOps[s].pc = "remove"
    /\ IF verification_codes[authOps[s].email] = NoEntry
       THEN /\ last' = AuthOutcome("verify_email", "500")
            /\ UNCHANGED verification_codes
       ELSE /\ verification_codes' =
                   [verification_codes EXCEPT ![authOps[s].email] = NoEntry]
            /\ last' = AuthOutcome("verify_email", "200")
    /\ authOps' = [authOps EXCEPT ![s] = Idle]
    /\ UNCHANGED <<userDocs, utcnow, nextA, createPend,
                   chatVars, friendVars, slideVars, studyVars,
                   retryVars, marketVars>>

\* Time passes
Tick ==
    /\ utcnow' = utcnow + 1
    /\ UNCHANGED <<userDocs, verification_codes, authOps, nextA, createPend, last,
                   chatVars, friendVars, slideVars, studyVars,
                   retryVars, marketVars>>

----------------------------------------------------------------------------
(* youtube_service.py: the two calls that retry *)

\* max_retries = 3, lines 316 and 442
max_retries == 3

RetryKinds == {"summary", "answer"}

\* asyncio.sleep(2 ** attempt) that waits one second whatever the attempt
Backoff_OneSecond(attempt) == 1

\* asyncio.sleep(2 ** attempt), lines 387 and 499: the seconds waited
Backoff(attempt) == 2 ^ attempt

\* _generate_summary_with_retry and answer_question are entered: the for loop
\* starts with attempt 0
RetryBegin(s, kind) ==
    /\ retryOps[s] = Idle
    /\ retryOps' = [retryOps EXCEPT ![s] =
                       [op |-> kind, pc |-> "try", attempt |-> 0,
                        outcomes |-> <<>>, waits |-> <<>>, result |-> "pending"]]
    /\ UNCHANGED <<createPend, accountVars, marketVars, last,
                   chatVars, friendVars, slideVars, studyVars>>

\* One pass of the try block, lines 371-390 and 444-502: the model call
\* returns (ok) or raises
RetryAttempt(s, ok) ==
    /\ retryOps[s].op \in RetryKinds
    /\ retryOps[s].pc = "try"
    /\ LET call == retryOps[s]
           tried == [call EXCEPT !.outcomes = Append(@, IF ok THEN "ok" ELSE "failed")]
       IN retryOps' = [retryOps EXCEPT ![s] =
              IF ok THEN [tried EXCEPT !.pc = "returned", !.result = "text"]
              ELSE IF call.attempt < max_retries - 1
                   THEN [tried EXCEPT !.pc = "sleep"]
                   ELSE [tried EXCEPT !.pc = "returned", !.result = "None"]]
    /\ UNCHANGED <<createPend, accountVars, marketVars, last,
                   chatVars, friendVars, slideVars, studyVars>>

\* await asyncio.sleep(...) returns and the for loop takes its next attempt,
\* or ends at "return None" when range(max_retries) is used up
RetryWake(s) ==
    /\ retryOps[s].op \in RetryKinds
    /\ retryOps[s].pc = "sleep"
    /\ LET call == retryOps[s]
           slept == [call EXCEPT !.waits = Append(@, Backoff(call.attempt)),
                                 !.attempt = @ + 1]
       IN retryOps' = [retryOps EXCEPT ![s] =
              IF call.attempt + 1 < max_retries
              THEN [slept EXCEPT !.pc = "try"]
              ELSE [slept EXCEPT !.pc = "returned", !.result = "None"]]
    /\ UNCHANGED <<createPend, accountVars, marketVars, last,
                   chatVars, friendVars, slideVars, studyVars>>

\* routers/youtube.py:37-40, asyncio.wait_for around process_youtube_video:
\* the timeout cancels a summary call that is asleep
RetryCancel(s) ==
    /\ retryOps[s].op = "summary"
    /\ retryOps[s].pc = "sleep"
    /\ retryOps' = [retryOps EXCEPT ![s].pc = "returned", ![s].result = "cancelled"]
    /\ UNCHANGED <<createPend, accountVars, marketVars, last,
                   chatVars, friendVars, slideVars, studyVars>>

\* The caller takes the result
RetryReturn(s) ==
    /\ retryOps[s].op \in RetryKinds
    /\ retryOps[s].pc = "returned"
    /\ retryOps' = [retryOps EXCEPT ![s] = Idle]
    /\ last' = AuthOutcome(retryOps[s].op, retryOps[s].result)
    /\ UNCHANGED <<createPend, accountVars, marketVars,
                   chatVars, friendVars, slideVars, studyVars>>

----------------------------------------------------------------------------
(* routers/marketplace.py: buying a note with credits *)

MarketNoteOid(k) == Oid(90 + k)

\* db.marketplace_notes as upload_note (lines 59-72) leaves it after user 2
\* has uploaded a note for 60 credits and user 1 a free one
marketplace_notes ==
    {[_id |-> MarketNoteOid(1), seller_id |-> UserOid(2), price |-> 60, is_free |-> FALSE],
     [_id |-> MarketNoteOid(2), seller_id |-> UserOid(1), price |-> 0, is_free |-> TRUE]}

UnknownNoteId == ToStr(MarketNoteOid(3))
MarketNoteIdInputs ==
    {ToStr(n._id) : n \in marketplace_notes} \cup {UnknownNoteId, InvalidId}

\* "balance": 100, the wallet a buyer is given
StartingBalance == 100

\* The wallet of lines 239-245
NewWallet(user_id) ==
    [user_id |-> user_id, balance |-> StartingBalance,
     total_earned |-> 0, total_spent |-> 0, transactions |-> <<>>]

\* The document an upsert inserts for the seller: the filter and the update
UpsertedWallet(user_id, price) ==
    [user_id |-> user_id, balance |-> price,
     total_earned |-> price, total_spent |-> 0,
     transactions |-> <<[type |-> "sale", amount |-> price]>>]

\* db.wallets.find_one({"user_id": user_id}): the position of the first
\* matching document, 0 when there is none
FindWallet(user_id) ==
    IF \E i \in 1..Len(wallets) : wallets[i].user_id = user_id
    THEN CHOOSE i \in 1..Len(wallets) :
             /\ wallets[i].user_id = user_id
             /\ \A j \in 1..(i - 1) : wallets[j].user_id # user_id
    ELSE 0

\* {"$inc": {"balance": -price, "total_spent": price}, "$push": ...}
Deducted(w, price) ==
    [w EXCEPT !.balance = @ - price,
              !.total_spent = @ + price,
              !.transactions = Append(@, [type |-> "purchase", amount |-> 0 - price])]

\* {"$inc": {"balance": price, "total_earned": price}, "$push": ...}
Credited(w, price) ==
    [w EXCEPT !.balance = @ + price,
              !.total_earned = @ + price,
              !.transactions = Append(@, [type |-> "sale", amount |-> price])]

PurchaseOutcome(u, status) ==
    Outcome("purchase_note", CurrentUserId(u), NoRoom, status, FALSE, NoContent, NoEmit)

\* lines 248-256 of purchase_note: what follows once buyer_wallet is known
AfterWallet(note, balance) ==
    IF note.is_free THEN "record"
    ELSE IF balance < note.price THEN "raise"
    ELSE "deduct"

\* purchase_note, lines 223-225: the note is looked up.  An id that is no
\* ObjectId and a note that is not found both end in the except branch of
\* lines 309-311, which answers 500
PurchaseNoteBegin(s, u, note_id) ==
    /\ purchaseOps[s] = Idle
    /\ nextP' = nextP + 1
    /\ LET found == {n \in marketplace_notes : IsValidId(note_id) /\ n._id = ToOid(note_id)}
       IN IF found = {}
          THEN /\ last' = PurchaseOutcome(u, "500")
               /\ UNCHANGED purchaseOps
          ELSE /\ purchaseOps' = [purchaseOps EXCEPT ![s] =
                      [op |-> "purchase", pc |-> "existing", user |-> u,
                       note |-> CHOOSE n \in found : TRUE, balance |-> 0]]
               /\ last' = PurchaseOutcome(u, "pending")
    /\ UNCHANGED <<wallets, notePurchases, downloads, createPend, accountVars,
                   retryVars, chatVars, friendVars, slideVars, studyVars>>

\* purchase_note, lines 228-234: note_purchases.find_one for this buyer
PurchaseNoteFindPurchase(s) ==
    /\ purchaseOps[s].op = "purchase"
    /\ purchaseOps[s].pc = "existing"
    /\ IF \E q \in notePurchases : /\ q.note_id = purchaseOps[s].note._id
                                   /\ q.buyer_id = UserOid(purchaseOps[s].user)
       THEN /\ purchaseOps' = [purchaseOps EXCEPT ![s] = Idle]
            /\ last' = PurchaseOutcome(purchaseOps[s].user, "already_purchased")
       ELSE /\ purchaseOps' = [purchaseOps EXCEPT ![s].pc = "wallet"]
            /\ UNCHANGED last
    /\ UNCHANGED <<wallets, notePurchases, downloads, nextP, createPend, accountVars,
                   retryVars, chatVars, friendVars, slideVars, studyVars>>

\* The handler goes on from the wallet it holds
Proceed(s, balance) ==
    LET op == purchaseOps[s]
        pc == AfterWallet(op.note, balance)
    IN IF pc = "raise"
       THEN /\ purchaseOps' = [purchaseOps EXCEPT ![s] = Idle]
            /\ last' = PurchaseOutcome(op.user, "500")
       ELSE /\ purchaseOps' = [purchaseOps EXCEPT ![s].pc = pc, ![s].balance = balance]
            /\ UNCHANGED last

\* purchase_note, line 237: wallets.find_one; with a wallet found the
\* handler runs on to the balance test of lines 251-256
PurchaseNoteFindWallet(s) ==
    /\ purchaseOps[s].op = "purchase"
    /\ purchaseOps[s].pc = "wallet"
    /\ LET i == FindWallet(UserOid(purchaseOps[s].user))
       IN IF i = 0
          THEN /\ purchaseOps' = [purchaseOps EXCEPT ![s].pc = "create"]
               /\ UNCHANGED last
          ELSE Proceed(s, wallets[i].balance)
    /\ UNCHANGED <<wallets, notePurchases, downloads, nextP, createPend, accountVars,
                   retryVars, chatVars, friendVars, slideVars, studyVars>>

\* purchase_note, lines 238-246: the buyer's wallet is inserted, then the
\* balance test
PurchaseNoteCreateWallet(s) ==
    /\ purchaseOps[s].op = "purchase"
    /\ purchaseOps[s].pc = "create"
    /\ wallets' = Append(wallets, NewWallet(UserOid(purchaseOps[s].user)))
    /\ Proceed(s, StartingBalance)
    /\ UNCHANGED <<notePurchases, downloads, nextP, createPend, accountVars,
                   retryVars, chatVars, friendVars, slideVars, studyVars>>

\* purchase_note, lines 259-272: the price is taken from the buyer
PurchaseNoteDeduct(s) ==
    /\ purchaseOps[s].op = "purchase"
    /\ purchaseOps[s].pc = "deduct"
    /\ LET i == FindWallet(UserOid(purchaseOps[s].user))
       IN IF i = 0 THEN UNCHANGED wallets
          ELSE wallets' = [wallets EXCEPT ![i] = Deducted(@, purchaseOps[s].note.price)]
    /\ purchaseOps' = [purchaseOps EXCEPT ![s].pc = "credit"]
    /\ UNCHANGED <<notePurchases, downloads, nextP, last, createPend, accountVars,
                   retryVars, chatVars, friendVars, slideVars, studyVars>>

\* purchase_note, lines 275-290: the price is given to the seller, upsert=True
PurchaseNoteCredit(s) ==
    /\ purchaseOps[s].op = "purchase"
    /\ purchaseOps[s].pc = "credit"
    /\ LET note == purchaseOps[s].note
           i == FindWallet(note.seller_id)
       IN IF i = 0
          THEN wallets' = Append(wallets, UpsertedWallet(note.seller_id, note.price))
          ELSE wallets' = [wallets EXCEPT ![i] = Credited(@, note.price)]
    /\ purchaseOps' = [purchaseOps EXCEPT ![s].pc = "record"]
    /\ UNCHANGED <<notePurchases, downloads, nextP, last, createPend, accountVars,
                   retryVars, chatVars, friendVars, slideVars, studyVars>>

\* purchase_note, lines 292-299: the purchase is recorded
PurchaseNoteRecord(s) ==
    /\ purchaseOps[s].op = "purchase"
    /\ purchaseOps[s].pc = "record"
    /\ notePurchases' = notePurchases \cup
           {[n |-> Cardinality(notePurchases) + 1,
             note_id |-> purchaseOps[s].note._id,
             buyer_id |-> UserOid(purchaseOps[s].user),
             seller_id |-> purchaseOps[s].note.seller_id,
             price |-> purchaseOps[s].note.price]}
    /\ purchaseOps' = [purchaseOps EXCEPT ![s].pc = "downloads"]
    /\ UNCHANGED <<wallets, downloads, nextP, last, createPend, accountVars,
                   retryVars, chatVars, friendVars, slideVars, studyVars>>

\* purchase_note, lines 302-307: downloads is incremented; the response
PurchaseNoteDownloads(s) ==
    /\ purchaseOps[s].op = "purchase"
    /\ purchaseOps[s].pc = "downloads"
    /\ downloads' = [downloads EXCEPT ![purchaseOps[s].note._id] = @ + 1]
    /\ purchaseOps' = [purchaseOps EXCEPT ![s] = Idle]
    /\ last' = PurchaseOutcome(purchaseOps[s].user, "200")
    /\ UNCHANGED <<wallets, notePurchases, nextP, createPend, accountVars,
                   retryVars, chatVars, friendVars, slideVars, studyVars>>

----------------------------------------------------------------------------
(* The chat specification *)

NoOutcome == Outcome("none", NoUser, NoRoom, "ok", FALSE, NoContent, NoEmit)

\* No request has been served yet: empty collections, no connection
NoChat ==
    /\ classrooms = {}
    /\ rooms = {}
    /\ messages = {}
    /\ nextC = 0
    /\ nextR = 0
    /\ nextM = 0
    /\ now = 1
    /\ sessions = [s \in Sids |-> NoSession]
    /\ sockRooms = [s \in Sids |-> {}]
    /\ editPend = {}

NoFriends ==
    /\ friends = [u \in Users |-> <<>>]
    /\ friendRequests = {}
    /\ nextF = 0
    /\ friendOps = [s \in Slots |-> Idle]

NoSlides ==
    /\ docSessions = {}
    /\ slideReqs = {}
    /\ slideJobs = <<>>
    /\ nextS = 0
    /\ nextQ = 0
    /\ finalLog = <<>>

NoAccounts ==
    /\ userDocs = {}
    /\ verification_codes = [e \in Emails |-> NoEntry]
    /\ authOps = [s \in Slots |-> Idle]
    /\ utcnow = 0
    /\ nextA = 0

NoRetries ==
    /\ retryOps = [s \in Slots |-> Idle]

NoMarket ==
    /\ wallets = <<>>
    /\ notePurchases = {}
    /\ downloads = [n \in {m._id : m \in marketplace_notes} |-> 0]
    /\ purchaseOps = [s \in Slots |-> Idle]
    /\ nextP = 0

NoService ==
    /\ createPend = [s \in Slots |-> Idle]
    /\ NoAccounts
    /\ NoRetries
    /\ NoMarket

NoStudy ==
    /\ ytSessions = {}
    /\ nextY = 0
    /\ chatTurns = {}
    /\ nextT = 0

Init ==
    /\ NoChat
    /\ NoFriends
    /\ NoSlides
    /\ NoStudy
    /\ NoService
    /\ last = NoOutcome

\* Room for one more classroom, room, message; the clock can still advance
CanAddClassroom == nextC < MaxClassrooms /\ nextR < MaxRooms
CanAddRoom == nextR < MaxRooms
CanAddMessage == nextM < MaxMessages

Next ==
    \/ \E u \in Users, code \in InviteCodes :
           CanAddClassroom /\ CreateClassroom(u, code)
    \/ \E u \in Users, code \in InviteCodes \cup {BadInviteCode} : JoinClassroom(u, code)
    \/ \E u \in Users, c \in ClassroomIdInputs : LeaveClassroom(u, c)
    \/ \E u \in Users, c \in ClassroomIdInputs : DeleteClassroom(u, c)
    \/ \E u \in Users, c \in ClassroomIdInputs, n \in RoomNames :
           CanAddRoom /\ CreateRoom(u, c, n)
    \/ \E u \in Users, c \in ClassroomIdInputs, r \in RoomIdInputs : DeleteRoom(u, c, r)
    \/ \E s \in Sids, t \in Tokens \cup {NoToken} : Connect(s, t)
    \/ \E s \in Sids : Disconnect(s)
    \/ \E s \in Sids, r \in RoomIdInputs \cup {InvalidId} : HandleJoinRoom(s, r)
    \/ \E s \in Sids, r \in RoomIdInputs : HandleLeaveRoom(s, r)
    \/ \E s \in Sids, r \in RoomIdInputs \cup {NoRoom}, c \in Contents \cup {NoContent} :
           CanAddMessage /\ HandleMessage(s, r, c)
    \/ \E u \in Users, r \in RoomIdInputs \cup {InvalidId} : GetRoomMessages(u, r)
    \/ \E u \in Users, r \in RoomIdInputs \cup {InvalidId}, b \in RoomIdInputs,
          c \in Contents, v \in ModerationVerdicts :
           CanAddMessage /\ SendMessage(u, r, b, c, v)
    \/ \E u \in Users, r \in RoomIdInputs \cup {InvalidId} : SummarizeRoomChat(u, r)

Spec == Init /\ [][Next]_vars

----------------------------------------------------------------------------
(* The message-lifecycle specification: one room's thread, with edits and   *)
(* deletes.  It starts where user 1 has created a classroom and its room   *)
(* Homework, user 2 has joined with the invite code, and user 2's socket   *)
(* has connected and joined the room.                                      *)

HomeworkId == ToStr(RoomOid(2))

InitThread ==
    /\ classrooms = {[_id |-> ClassroomOid(1), admin_id |-> CurrentUserId(1),
                      members |-> {CurrentUserId(1), CurrentUserId(2)},
                      invite_code |-> "X7K9QP2L"]}
    /\ rooms = {[_id |-> RoomOid(1), classroom_id |-> ToStr(ClassroomOid(1)),
                 name |-> "General"],
                [_id |-> RoomOid(2), classroom_id |-> ClassroomOid(1),
                 name |-> "Homework"]}
    /\ messages = {}
    /\ nextC = 1
    /\ nextR = 2
    /\ nextM = 0
    /\ now = 1
    /\ sessions = [s \in Sids |-> [user_id |-> CurrentUserId(2), name |-> 2]]
    /\ sockRooms = [s \in Sids |-> {HomeworkId}]
    /\ editPend = {}
    /\ NoFriends
    /\ NoSlides
    /\ NoStudy
    /\ NoService
    /\ last = NoOutcome

CanAddToThread == nextM < MaxThread
CanEdit == now < MaxClock

NextThread ==
    \/ \E s \in Sids, c \in Contents :
           CanAddToThread /\ HandleMessage(s, HomeworkId, c)
    \/ \E u \in Users, c \in Contents, v \in ModerationVerdicts :
           CanAddToThread /\ SendMessage(u, HomeworkId, HomeworkId, c, v)
    \/ \E u \in Users, m \in MessageIdInputs \cup {InvalidId},
          c \in Contents \cup {NoContent}, v \in ModerationVerdicts :
           Cardinality(editPend) < MaxPendingEdits /\ EditMessageBegin(u, m, c, v)
    \/ \E p \in editPend : CanEdit /\ EditMessageCommit(p)
    \/ \E u \in Users, m \in MessageIdInputs \cup {InvalidId} : DeleteMessage(u, m)
    \/ \E u \in Users : GetRoomMessages(u, HomeworkId)
    \/ \E u \in Users : SummarizeRoomChat(u, HomeworkId)

SpecThread == InitThread /\ [][NextThread]_vars

----------------------------------------------------------------------------
(* The friends specification: the handlers of routers/friends.py, at most  *)
(* MaxInFlight of them suspended at a time, from the state where the users *)
(* have registered and nobody has a friend.                                *)

Sending == {s \in Slots : friendOps[s].op = "send"}
CanSendRequest == nextF + Cardinality(Sending) < MaxFriendRequests

NextFriends ==
    \/ \E s \in Slots, u \in Users, r \in UserIdInputs :
           CanSendRequest /\ SendFriendRequestBegin(s, u, r)
    \/ \E s \in Slots : SendFriendRequestInsert(s)
    \/ \E s \in Slots, u \in Users, r \in RequestIdInputs :
           AcceptFriendRequestBegin(s, u, r)
    \/ \E s \in Slots : AcceptFriendRequestSetStatus(s)
    \/ \E s \in Slots : AcceptFriendRequestAddSender(s)
    \/ \E s \in Slots : AcceptFriendRequestAddReceiver(s)
    \/ \E s \in Slots, u \in Users, r \in RequestIdInputs :
           DeclineFriendRequestBegin(s, u, r)
    \/ \E s \in Slots : DeclineFriendRequestSetStatus(s)
    \/ \E s \in Slots, u \in Users, f \in UserIdInputs : RemoveFriendBegin(s, u, f)
    \/ \E s \in Slots : RemoveFriendPullMine(s)
    \/ \E s \in Slots : RemoveFriendPullTheirs(s)
    \/ \E s \in Slots : RemoveFriendDeleteRequests(s)

SpecFriends == Init /\ [][NextFriends]_vars

----------------------------------------------------------------------------
(* The slides specification: document sessions of routers/notes.py, their  *)
(* slide-generation requests and background jobs.                          *)

CanAddSession == nextS < MaxDocSessions
CanRequestSlides == nextQ < MaxSlideRequests

NextSlides ==
    \/ \E u \in Users, d \in DocumentIdInputs :
           CanAddSession /\ CreateDocumentSession(u, d)
    \/ \E u \in Users, s \in SessionIdInputs : DeleteDocumentSession(u, s)
    \/ \E u \in Users, s \in SessionIdInputs, g \in BOOLEAN :
           SummarizeDocumentSession(u, s, g)
    \/ \E u \in Users, s \in SessionIdInputs :
           CanRequestSlides /\ GenerateDocumentSlidesBegin(u, s)
    \/ \E r \in slideReqs : GenerateDocumentSlidesCommit(r)
    \/ \E j \in 1..Len(slideJobs), p \in BOOLEAN, g \in SUBSET SlideNums, a \in BOOLEAN :
           ProcessSlidesGenerate(j, p, g, a)
    \/ \E j \in 1..Len(slideJobs) : ProcessSlidesUpdate(j)
    \/ \E j \in 1..Len(slideJobs) : ProcessSlidesExcept(j)

SpecSlides == Init /\ [][NextSlides]_vars

CanAddStudySession == nextS < MaxStudySessions
CanAddYouTubeSession == nextY < MaxYouTubeSessions
CanBeginTurn == nextT < MaxTurns

NextStudy ==
    \/ \E u \in Users, d \in DocumentIdInputs :
           CanAddStudySession /\ CreateDocumentSession(u, d)
    \/ \E u \in Users, s \in StudySessionIdInputs : DeleteDocumentSession(u, s)
    \/ \E u \in Users, s \in StudySessionIdInputs, g \in BOOLEAN :
           SummarizeDocumentSession(u, s, g)
    \/ \E u \in Users, s \in StudySessionIdInputs : GetDocumentSession(u, s)
    \/ \E u \in Users, s \in StudySessionIdInputs :
           CanAddStudySession /\ ImportSharedDocumentSession(u, s)
    \/ \E u \in Users, p \in Processings :
           CanAddYouTubeSession /\ CreateYouTubeSession(u, p)
    \/ \E u \in Users, s \in YouTubeIdInputs : GetYouTubeSession(u, s)
    \/ \E u \in Users, s \in YouTubeIdInputs : DeleteYouTubeSession(u, s)

SpecStudy == Init /\ [][NextStudy]_vars

\* The chat turns of one user on a document session and a YouTube session
\* that the user created earlier
TurnsUser == 1

InitTurns ==
    /\ NoChat
    /\ NoFriends
    /\ docSessions = {[_id |-> SessionOid(1),
                       user_id |-> ToOid(CurrentUserId(TurnsUser)),
                       document_id |-> DocumentOid(TurnsUser),
                       has_summary |-> FALSE,
                       chat_history |-> <<>>,
                       imported_from |-> NoField,
                       slides_pdf_url |-> NoUrl,
                       slides_status |-> "pending",
                       generated_slide_images |-> <<>>]}
    /\ nextS = 1
    /\ slideReqs = {}
    /\ slideJobs = <<>>
    /\ nextQ = 0
    /\ finalLog = <<>>
    /\ ytSessions = {[_id |-> YouTubeOid(1),
                      user_id |-> CurrentUserId(TurnsUser),
                      transcript |-> TRUE,
                      chat_history |-> <<>>]}
    /\ nextY = 1
    /\ chatTurns = {}
    /\ nextT = 0
    /\ NoService
    /\ last = NoOutcome

NextTurns ==
    \/ \E u \in Users, s \in SessionIdInputs, q \in Questions :
           CanBeginTurn /\ ChatWithDocumentSessionBegin(u, s, q)
    \/ \E t \in chatTurns, r \in Replies, w \in BOOLEAN :
           ChatWithDocumentSessionCommit(t, r, w)
    \/ \E u \in Users, s \in SessionIdInputs : ClearSessionChatHistory(u, s)
    \/ \E u \in Users, s \in SessionIdInputs : DeleteDocumentSession(u, s)
    \/ \E u \in Users, s \in YouTubeIdInputs, q \in Questions :
           CanBeginTurn /\ ChatWithTranscriptBegin(u, s, q)
    \/ \E t \in chatTurns, r \in Replies, w \in BOOLEAN :
           ChatWithTranscriptCommit(t, r, w)
    \/ \E u \in Users, s \in YouTubeIdInputs : DeleteYouTubeSession(u, s)

SpecTurns == InitTurns /\ [][NextTurns]_vars

\* Users 1 and 2 are friends: user 1 sent a friend request and user 2
\* accepted it
RoomsFriends ==
    /\ friends = [u \in Users |-> <<UserOid(3 - u)>>]
    /\ friendRequests = {[NewFriendRequest(1, UserOid(1), UserOid(2))
                             EXCEPT !.status = "accepted"]}
    /\ nextF = 1
    /\ friendOps = [s \in Slots |-> Idle]

InitRooms ==
    /\ NoChat
    /\ RoomsFriends
    /\ NoSlides
    /\ NoStudy
    /\ NoService
    /\ last = NoOutcome

CanAddManagedClassroom == nextC < MaxManagedClassrooms /\ nextR < MaxManagedRooms
CanAddManagedRoom == nextR < MaxManagedRooms

\* Room management by the admins of up to MaxManagedClassrooms classrooms,
\* each create_classroom served with no other request between its awaits
NextRooms ==
    \/ \E u \in Users, code \in GeneratedInviteCodes :
           CanAddManagedClassroom /\ CreateClassroom(u, code)
    \/ \E u \in Users, c \in ManagedClassroomIdInputs, n \in RoomNames :
           CanAddManagedRoom /\ CreateRoom(u, c, n)
    \/ \E u \in Users, c \in ManagedClassroomIdInputs, r \in ManagedRoomIdInputs,
          n \in RoomNames \cup {NoName} : UpdateRoom(u, c, r, n)
    \/ \E u \in Users, c \in ManagedClassroomIdInputs, r \in ManagedRoomIdInputs :
           DeleteRoom(u, c, r)

SpecRooms == InitRooms /\ [][NextRooms]_vars

CanCreateClassroom ==
    nextC + Cardinality({s \in Slots : createPend[s] # Idle /\ createPend[s].pc = "insert"})
        < MaxManagedClassrooms

\* Concurrent create_classroom requests and the requests that change members
NextMembers ==
    \/ \E s \in Slots, u \in Users, code \in GeneratedInviteCodes :
           CanCreateClassroom /\ CreateClassroomBegin(s, u, code)
    \/ \E s \in Slots : CreateClassroomInsert(s)
    \/ \E s \in Slots : CreateClassroomGeneral(s)
    \/ \E u \in Users, code \in GeneratedInviteCodes : JoinClassroom(u, code)
    \/ \E u \in Users, c \in ManagedClassroomIdInputs : LeaveClassroom(u, c)
    \/ \E u \in Users, c \in ManagedClassroomIdInputs, f \in UserIdInputs :
           AddMemberToClassroom(u, c, f)

SpecMembers == InitRooms /\ [][NextMembers]_vars

----------------------------------------------------------------------------
(* The registration specification: register, resend-verification and       *)
(* verify-email of routers/auth.py, from the state where nobody has         *)
(* registered.                                                              *)

CanTick == utcnow < MaxUtcNow
CanBeginAuth == nextA < MaxAuthRequests

NextAuth ==
    \/ \E s \in Slots, e \in Emails, i \in StudentIds :
           CanBeginAuth /\ RegisterBegin(s, e, i)
    \/ \E s \in Slots : RegisterFindStudent(s)
    \/ \E s \in Slots, c \in VerificationCodes : RegisterStore(s, c)
    \/ \E e \in Emails, c \in VerificationCodes : ResendVerification(e, c)
    \/ \E s \in Slots, e \in Emails, c \in VerificationCodes :
           CanBeginAuth /\ VerifyEmailBegin(s, e, c)
    \/ \E s \in Slots : VerifyEmailInsert(s)
    \/ \E s \in Slots : VerifyEmailRemove(s)
    \/ CanTick /\ Tick

SpecAuth == Init /\ [][NextAuth]_vars

----------------------------------------------------------------------------
(* The retry specification: calls of _generate_summary_with_retry and      *)
(* answer_question of youtube_service.py, each with every outcome of each  *)
(* model call.                                                              *)

NextRetry ==
    \/ \E s \in Slots, k \in RetryKinds : RetryBegin(s, k)
    \/ \E s \in Slots, ok \in BOOLEAN : RetryAttempt(s, ok)
    \/ \E s \in Slots : RetryWake(s)
    \/ \E s \in Slots : RetryCancel(s)
    \/ \E s \in Slots : RetryReturn(s)

SpecRetry == Init /\ [][NextRetry]_vars

----------------------------------------------------------------------------
(* The marketplace specification: purchase_note handlers interleaved at    *)
(* their awaits, once the two notes have been uploaded.                     *)

CanBeginPurchase == nextP < MaxPurchaseRequests

NextMarket ==
    \/ \E s \in Slots, u \in Users, n \in MarketNoteIdInputs :
           CanBeginPurchase /\ PurchaseNoteBegin(s, u, n)
    \/ \E s \in Slots : PurchaseNoteFindPurchase(s)
    \/ \E s \in Slots : PurchaseNoteFindWallet(s)
    \/ \E s \in Slots : PurchaseNoteCreateWallet(s)
    \/ \E s \in Slots : PurchaseNoteDeduct(s)
    \/ \E s \in Slots : PurchaseNoteCredit(s)
    \/ \E s \in Slots : PurchaseNoteRecord(s)
    \/ \E s \in Slots : PurchaseNoteDownloads(s)

SpecMarket == Init /\ [][NextMarket]_vars

----------------------------------------------------------------------------
(* Notions the chat claims are stated with.  They compare identifiers by    *)
(* what they name, whatever form they are stored in.                       *)

SameId(x, y) == ToStr(x) = ToStr(y)

\* the classrooms a room document refers to (at most one)
ClassroomsOfRoom(room) == {c \in classrooms : SameId(c._id, room.classroom_id)}

\* user_id is in the members list of the classroom
IsMember(user_id, classroom) == \E x \in classroom.members : SameId(x, user_id)

\* room_id names a stored room of a stored classroom that user_id is no member of
NonMemberOfRoom(user_id, room_id) ==
    /\ IsValidId(room_id)
    /\ Found(rooms, ToOid(room_id))
    /\ ClassroomsOfRoom(FindOne(rooms, ToOid(room_id))) # {}
    /\ \A c \in ClassroomsOfRoom(FindOne(rooms, ToOid(room_id))) :
           ~IsMember(user_id, c)

RoomScopedOps == {"http_list", "http_send", "http_summarize", "join_room",
                  "socket_send"}
Accepted(outcome) == outcome.status \in {"200", "ok"}

Range(seq) == {seq[i] : i \in 1..Len(seq)}

\* C1: every room-scoped operation (HTTP list, HTTP send, HTTP summarize,
\* socket join_room, socket send_message) by an authenticated user who is not
\* in the members list of the room's classroom is rejected: it is not
\* accepted, writes no message and broadcasts nothing.
C1_NonMemberRejected ==
    (/\ last.op \in RoomScopedOps
     /\ last.user # NoUser
     /\ NonMemberOfRoom(last.user, last.room))
    => (/\ ~Accepted(last)
        /\ last.wrote = NoContent
        /\ last.emit = NoEmit)

\* C2: the moderation gate runs before every write of chat content: every
\* handler that writes content to db.messages called moderate_message first,
\* and a handler whose moderation answered is_appropriate = false leaves
\* db.messages unchanged.
C2_ModeratedBeforeWrite ==
    [][/\ last'.wrote # NoContent => last'.moderated
       /\ (last'.moderated /\ last'.status = "400") => messages' = messages]_vars

\* C3: socket send_message and HTTP POST are behaviourally identical: from
\* the same store state, for the same user, room and content (and the same
\* answer of the classifier), both accept or both reject, and when they
\* accept they store the same record and broadcast to the same socket room.
C3_TransportsAgree ==
    \A s \in Sids, u \in Users, r \in RoomIdInputs, c \in Contents,
       v \in ModerationVerdicts :
        (sessions[s] # NoSession /\ sessions[s].user_id = CurrentUserId(u)) =>
            /\ (HandleMessageStatus(s, r, c) = "ok")
                   <=> (SendMessageStatus(u, r, v) = "200")
            /\ (HandleMessageStatus(s, r, c) = "ok"
                    /\ SendMessageStatus(u, r, v) = "200")
                   => HandleMessageRecord(s, r, c) = SendMessageRecord(u, r, c)

\* C4: once a message's deleted flag is true it stays true, and its content,
\* edited and edited_at fields no longer change.
C4_DeletedIsFinal ==
    [][\A m \in messages : \A m2 \in messages' :
          (m.deleted /\ m2._id = m._id) =>
              /\ m2.deleted
              /\ m2.content = m.content
              /\ m2.edited = m.edited
              /\ m2.edited_at = m.edited_at]_vars

ListLimits == 0..3
ListOffsets == 0..2

\* C5: a successful DELETE /chat/messages/{id} keeps the record with its
\* content, sender, room and timestamp (and every other field) and sets only
\* deleted; a deleted message is in no GET /chat/rooms/{room_id}/messages
\* result, whatever limit and offset, and not among the messages given to
\* room summarization.
C5_SoftDelete ==
    /\ [](\A m \in messages : m.deleted =>
            \A r \in RoomIdInputs :
                /\ \A l \in ListLimits, o \in ListOffsets :
                       m \notin Range(RoomMessagesResult(r, l, o))
                /\ m \notin Range(SummarizeInput(r)))
    /\ [][\A m \in messages :
            (/\ last'.op = "delete_message"
             /\ last'.status = "200"
             /\ last'.emit.msg = m._id)
            => \E m2 \in messages' :
                   /\ m2._id = m._id
                   /\ m2.deleted
                   /\ m2.content = m.content
                   /\ m2.sender_id = m.sender_id
                   /\ m2.room_id = m.room_id
                   /\ m2.timestamp = m.timestamp
                   /\ m2.edited = m.edited
                   /\ m2.edited_at = m.edited_at]_vars

\* C5 witness: user 2 has just deleted a message of the room; the record is
\* still stored, and another message of the room is still listed.
C5_Witness ==
    /\ last.op = "delete_message"
    /\ last.status = "200"
    /\ \E m \in messages :
          /\ m._id = last.emit.msg
          /\ m.deleted
          /\ m.room_id = ToOid(HomeworkId)
    /\ Len(RoomMessagesResult(HomeworkId, 0, 0)) = 1

\* C10: when delete_classroom succeeds, no room that references the deleted
\* classroom is left, and no message that references a room of that classroom.
C10_NoOrphans ==
    [][\A c \in classrooms :
          ~Found(classrooms', c._id) =>
              /\ \A r \in rooms' : ~SameId(r.classroom_id, c._id)
              /\ \A r \in rooms : SameId(r.classroom_id, c._id) =>
                     \A m \in messages' : ~SameId(m.room_id, r._id)]_vars

\* C11: a successful create_classroom produces a classroom whose admin is
\* the caller and whose members are exactly the caller, together with exactly
\* one room, named General, that references the new classroom; no other room
\* is created.
C11_ClassroomWithGeneral ==
    [][nextC' = nextC + 1 =>
          /\ last'.op = "create_classroom"
          /\ last'.status = "200"
          /\ \E c \in classrooms' \ classrooms :
                 /\ classrooms' = classrooms \cup {c}
                 /\ c.admin_id = last'.user
                 /\ c.members = {last'.user}
                 /\ \E r \in rooms' \ rooms :
                        /\ rooms' = rooms \cup {r}
                        /\ r.name = "General"
                        /\ SameId(r.classroom_id, c._id)]_vars

\* A classroom has just been created
C11_Witness ==
    /\ last.op = "create_classroom"
    /\ last.status = "200"
    /\ \E c \in classrooms : c.admin_id = last.user
    /\ \E r \in rooms : r.name = "General"

----------------------------------------------------------------------------
(* Slide generation *)

\* The order pending, processing, then completed or failed
Forward(old, new) ==
    \/ old = new
    \/ old = "pending"
    \/ old = "processing" /\ new \in {"completed", "failed"}

JobsOf(d) == {j \in 1..Len(slideJobs) : slideJobs[j].session_id = d._id}
FinalsOf(d) == {i \in 1..Len(finalLog) : finalLog[i] \in JobsOf(d)}
LastWriter(d) == finalLog[CHOOSE i \in FinalsOf(d) : \A k \in FinalsOf(d) : k <= i]

\* Slide generation was requested at least twice on d, no request is still
\* being handled, and every job ran to completion without error
BothJobsCompleted(d) ==
    /\ \A r \in slideReqs : r.session_object_id # d._id
    /\ Cardinality(JobsOf(d)) >= 2
    /\ \A j \in JobsOf(d) : slideJobs[j].pc = "completed"

\* C7: when slide generation was requested twice on a session and both jobs
\* have run to completion without error, the session's slides_status is
\* completed (and stays so: this holds in every such state), and its
\* slides_pdf_url and generated_slide_images are both the values written by
\* the job whose final update was applied last, never a mix of the two jobs.
C7_LastJobWins ==
    \A d \in docSessions :
        BothJobsCompleted(d) =>
            /\ d.slides_status = "completed"
            /\ d.slides_pdf_url = PdfUrl(slideJobs[LastWriter(d)].session_id)
            /\ d.generated_slide_images = slideJobs[LastWriter(d)].image_urls

\* Two jobs with different images have completed on one session, the job
\* queued first finishing last
C7_Witness ==
    \E d \in docSessions :
        /\ BothJobsCompleted(d)
        /\ JobsOf(d) = {1, 2}
        /\ slideJobs[1].image_urls # slideJobs[2].image_urls
        /\ finalLog = <<2, 1>>

----------------------------------------------------------------------------
(* Friends *)

\* The user an id names
UserOf(id) == CHOOSE u \in Users : SameId(UserOid(u), id)

\* How many times user b appears in a friends array, in either form
OccurrencesIn(arr, b) ==
    Cardinality({i \in 1..Len(arr) : SameId(arr[i], UserOid(b))})

Occurrences(a, b) == OccurrencesIn(friends[a], b)

\* C8: when accept_friend_request, called by the receiver B on a pending
\* request sent by A, returns success, A is in B's friends list and B is in
\* A's friends list, each exactly once, and the request's status is accepted.
C8_AcceptMakesFriends ==
    [][\A s \in Slots :
          (/\ friendOps[s].op = "accept"
           /\ friendOps[s].pc = "add_receiver"
           /\ friendOps'[s] = Idle)
          => LET b == friendOps[s].user
                 a == UserOf(friendOps[s].sender_id)
             IN /\ OccurrencesIn(friends'[b], a) = 1
                /\ OccurrencesIn(friends'[a], b) = 1
                /\ \E r \in friendRequests' :
                       /\ r._id = friendOps[s].request_object_id
                       /\ r.status = "accepted"]_vars

\* C9: in every state where no friend operation is in flight, after any
\* interleaving of send-request, accept, decline and remove-friend requests,
\* A's friends list contains B if and only if B's friends list contains A.
C9_FriendsMirrored ==
    (\A s \in Slots : friendOps[s] = Idle)
        => \A a \in Users, b \in Users :
               (Occurrences(a, b) > 0) <=> (Occurrences(b, a) > 0)




\* C12: a caller who does not own a session obtains none of its content,
\* neither directly nor as a copy, and changes none of its fields: every
\* session a caller can read holds the content of a document of the caller's
\* own and is no clone of another session, and a step changes or removes
\* only sessions of the user it serves
C12_OwnerOnly ==
    /\ [](\A u \in Users, s \in StudySessionIdInputs :
             \A d \in GetDocumentSessionResult(u, s) :
                 /\ ToStr(d.user_id) = CurrentUserId(u)
                 /\ u \in DocumentOwner(d.document_id)
                 /\ d.imported_from = NoField)
    /\ [](\A u \in Users, s \in YouTubeIdInputs :
             \A d \in GetYouTubeSessionResult(u, s) : d.user_id = CurrentUserId(u))
    /\ [][/\ \A d \in docSessions \ docSessions' : ToStr(d.user_id) = last'.user
          /\ \A d \in ytSessions \ ytSessions' : d.user_id = last'.user]_vars


\* C17: when the video processing of create_youtube_session runs past its
\* 300 seconds, the caller receives status 408 and no youtube_sessions
\* record is created
C17_TimeoutIs408 ==
    [][\A u \in Users :
          CreateYouTubeSession(u, "timeout") =>
              /\ last'.status = "408"
              /\ ytSessions' = ytSessions]_vars


\* A history made of adjacent (user, assistant) pairs, each assistant record
\* replying to the user record before it
PairedHistory(h) ==
    /\ Len(h) % 2 = 0
    /\ \A i \in 1..Len(h) :
           i % 2 = 1 =>
               /\ h[i].role = "user"
               /\ h[i + 1].role = "assistant"
               /\ h[i + 1].content \in {<<"answer", h[i].content[1]>>, <<"apology">>}

\* The history of a session after one turn asking message was appended to it
IsTurnAppended(before, after, message) ==
    /\ Len(after) = Len(before) + 2
    /\ SubSeq(after, 1, Len(before)) = before
    /\ after[Len(before) + 1] = [role |-> "user", content |-> <<message>>]
    /\ after[Len(before) + 2].role = "assistant"

ChatOps == {"chat_with_document_session", "chat_with_transcript"}

\* C14: every chat_history has even length and consists of adjacent
\* (user, assistant) pairs in every reachable state, whatever the
\* interleaving of chat turns, clear-history and delete requests; a turn
\* that completes appends exactly one user record followed by one assistant
\* record to its session in one step, and a turn that fails appends nothing
C14_PairedTurns ==
    /\ [](/\ \A d \in docSessions : PairedHistory(d.chat_history)
          /\ \A d \in ytSessions : PairedHistory(d.chat_history))
    /\ [][\A t \in chatTurns \ chatTurns' :
             IF last'.status = "200"
             THEN /\ \A d \in docSessions :
                        (t.kind = "document" /\ d._id = t.session_id) =>
                            \E e \in docSessions' :
                                /\ e._id = d._id
                                /\ IsTurnAppended(d.chat_history, e.chat_history, t.message)
                  /\ \A d \in ytSessions :
                        (t.kind = "youtube" /\ d._id = t.session_id) =>
                            \E e \in ytSessions' :
                                /\ e._id = d._id
                                /\ IsTurnAppended(d.chat_history, e.chat_history, t.message)
             ELSE UNCHANGED <<docSessions, ytSessions>>]_vars
    /\ [][(last'.op \in ChatOps /\ last'.status # "200")
             => UNCHANGED <<docSessions, ytSessions>>]_vars

\* A turn has completed on a document session while another turn was still
\* waiting for its reply, and a turn has completed on a YouTube session
C14_Witness ==
    /\ last.op \in ChatOps
    /\ last.status = "200"
    /\ chatTurns # {}
    /\ \E d \in docSessions : Len(d.chat_history) = 2
    /\ \E d \in ytSessions : Len(d.chat_history) = 2


\* A token that verifies as an access token of an existing user
IsAccessTokenOfUser(token) ==
    /\ token # NoToken
    /\ token.valid
    /\ token.type = "access"
    /\ token.sub \in Users

\* A connection gets a session only through a connect call carrying an
\* access token of an existing user; any other connect fails and saves none
SessionOnlyByAccessToken(sid) ==
    /\ (sessions[sid] = NoSession /\ sessions'[sid] # NoSession) =>
           \E token \in Tokens : IsAccessTokenOfUser(token) /\ Connect(sid, token)
    /\ \A token \in Tokens \cup {NoToken} :
           (~IsAccessTokenOfUser(token) /\ Connect(sid, token)) =>
               /\ last'.status = "error"
               /\ sessions'[sid] = NoSession

\* C13 as stated: a connection has a session only if its connect call
\* carried an access token of an existing user, and every join_room and
\* send_message on a connection without a session is answered Unauthorized
C13_RejectedIsUnauthorized ==
    [][\A sid \in Sids :
          /\ SessionOnlyByAccessToken(sid)
          /\ sessions[sid] = NoSession =>
                 /\ \A r \in RoomIdInputs \cup {InvalidId} :
                        HandleJoinRoom(sid, r) => last'.status = "Unauthorized"
                 /\ \A r \in RoomIdInputs \cup {NoRoom}, c \in Contents \cup {NoContent} :
                        HandleMessage(sid, r, c) => last'.status = "Unauthorized"]_vars

\* C13, amended: a connection has a session only if its connect call carried
\* an access token of an existing user; on a connection without a session
\* every join_room is answered Unauthorized, every send_message is answered
\* Unauthorized, or Missing required fields when its room_id or content is
\* missing, and neither joins a room nor stores a message
C13_RejectedHasNoEffect ==
    [][\A sid \in Sids :
          /\ SessionOnlyByAccessToken(sid)
          /\ sessions[sid] = NoSession =>
                 /\ \A r \in RoomIdInputs \cup {InvalidId} :
                        HandleJoinRoom(sid, r) =>
                            /\ last'.status = "Unauthorized"
                            /\ UNCHANGED <<sockRooms, messages>>
                 /\ \A r \in RoomIdInputs \cup {NoRoom}, c \in Contents \cup {NoContent} :
                        HandleMessage(sid, r, c) =>
                            /\ last'.status =
                                   IF r = NoRoom \/ c = NoContent
                                   THEN "Missing required fields" ELSE "Unauthorized"
                            /\ UNCHANGED <<sockRooms, messages>>]_vars

\* A send_message was answered Unauthorized on a connection without a
\* session while a room exists
C13_Witness ==
    /\ \E sid \in Sids : sessions[sid] = NoSession
    /\ last.op = "socket_send"
    /\ last.status = "Unauthorized"
    /\ rooms # {}


\* What GET /chat/rooms/{room_id}/messages with the default paging returns
\* to user u: the ids of the listed messages
ListedTo(u, room_id) ==
    IF RoomAccessStatus(u, room_id) = "200"
    THEN {m._id : m \in Range(RoomMessagesResult(room_id, Cardinality(messages), 0))}
    ELSE {}

\* C15: a user who joins a classroom with its invite code is in its members
\* afterwards, and a message successfully posted with
\* POST /chat/rooms/{room_id}/messages is returned by a GET of the same room
\* issued next by any member of the room's classroom
C15_PostedIsListed ==
    /\ [][(last'.op = "join_classroom" /\ last'.status = "200") =>
             \E c \in classrooms' : /\ last'.user \in c.members
                                    /\ \E b \in classrooms : b._id = c._id
                                           /\ last'.user \notin b.members]_vars
    /\ []((last.op = "http_send" /\ last.status = "200") =>
             \A v \in Users :
                 RoomAccessStatus(v, last.room) = "200" =>
                     last.emit.msg \in ListedTo(v, last.room))


\* C18: every message persisted by POST /chat/rooms/{room_id}/messages is
\* stored under the room of the URL, the room for which the sender's
\* membership was checked and to which new_message is broadcast, whatever
\* the room_id field of the request body says
C18_StoredUnderUrlRoom ==
    (last.op = "http_send" /\ last.status = "200") =>
        /\ last.emit.event = "new_message"
        /\ last.emit.room = ToStr(last.room)
        /\ \E m \in messages : /\ m._id = last.emit.msg
                                /\ SameId(m.room_id, last.room)


\* The classifier failed: the API call raised or its reply is no JSON
FailedVerdicts == {"unparsable", "unavailable"}

\* C16: whenever the classifier fails, moderate_message returns
\* is_appropriate = true with confidence 0.0, and the message being sent is
\* accepted
C16_FailsOpen ==
    [][\A u \in Users, r \in RoomIdInputs, b \in RoomIdInputs, c \in Contents,
         v \in FailedVerdicts :
          (RoomAccessStatus(u, r) = "200" /\ SendMessage(u, r, b, c, v)) =>
              /\ ModerateMessage(v).is_appropriate
              /\ ModerateMessage(v).confidence = "0.0"
              /\ last'.status = "200"
              /\ last'.wrote = c]_vars


\* The requests C19 names: socket join_room and send_message, HTTP list and send
LeaverOps == {"join_room", "socket_send", "http_list", "http_send"}

\* C19: a user who has left a classroom is rejected on every later
\* room-scoped request on a room of that classroom, even when the user's
\* socket connection had joined the room before leaving: a request by the
\* user of a connection that is in the socket room of r, while the user is
\* no longer in the members of r's classroom, is not accepted
C19_LeaverRejected ==
    [][\A sid \in Sids :
          \A r \in sockRooms[sid] :
              (/\ NonMemberOfRoom(sessions[sid].user_id, r)
               /\ last'.op \in LeaverOps
               /\ last'.user = sessions[sid].user_id
               /\ last'.room = r)
              => ~Accepted(last')]_vars

RoomEvents == {"new_message", "message_edited", "message_deleted"}

\* C20: whenever a new_message, message_edited or message_deleted event is
\* delivered for room R, no connection that receives it belongs to a user
\* who is outside the members of R's classroom
C20_DeliveredToMembers ==
    last.emit.event \in RoomEvents =>
        \A sid \in last.emit.to :
            ~NonMemberOfRoom(sessions[sid].user_id, last.emit.room)


\* user_id is the admin of the classroom that the room belongs to
IsAdminOfRoom(user_id, room) ==
    \E c \in ClassroomsOfRoom(room) : SameId(c.admin_id, user_id)

\* C21: update_room and delete_room change or remove a room only when the
\* caller is the admin of the classroom the room belongs to
C21_OnlyOwnRooms ==
    [][last'.op \in {"update_room", "delete_room"} =>
          \A r \in rooms \ rooms' : IsAdminOfRoom(last'.user, r)]_vars

\* C26: whenever no create_classroom is between its two inserts, every
\* existing classroom has a room named General
C26_GeneralRemains ==
    (\A s \in Slots : createPend[s] = Idle) =>
        \A c \in classrooms :
            \E r \in rooms : SameId(r.classroom_id, c._id) /\ r.name = "General"


\* C25: each classroom's admin is an element of its members list and no
\* user appears in the list twice
C25_MembersAreASet ==
    \A c \in classrooms :
        /\ IsMember(c.admin_id, c)
        /\ \A x, y \in c.members : SameId(x, y) => x = y

\* C27: no two classrooms have the same invite code
C27_InviteCodesUnique ==
    \A c, d \in classrooms : c.invite_code = d.invite_code => c = d


\* C22: every new_message event emitted to a room refers to a message that
\* is stored when the event is emitted and that the message listing of the
\* room the event was emitted to returns
C22_PersistedBeforeBroadcast ==
    last.emit.event = "new_message" =>
        /\ \E m \in messages : m._id = last.emit.msg
        /\ \E m \in Range(RoomMessagesResult(last.emit.room, Cardinality(messages), 0)) :
               m._id = last.emit.msg


\* The non-deleted messages sent to a room, whatever the form of their room_id
LiveMessagesOf(room_id) ==
    {m \in messages : SameId(m.room_id, room_id) /\ ~m.deleted}

\* The rank of a message among a set of messages ordered newest first
RankIn(S, m) == Cardinality({o \in S : o.timestamp > m.timestamp}) + 1

PageLimits == 1..3

\* C23: the listing of a room with limit L and offset O holds, in ascending
\* timestamp order and each once, exactly the non-deleted messages of that
\* room that rank O+1 through O+L newest first
C23_PageOfRoom ==
    \A r \in RoomIdInputs, L \in PageLimits, O \in ListOffsets :
        LET page == RoomMessagesResult(r, L, O)
        IN /\ Range(page) = {m \in LiveMessagesOf(r) :
                                 /\ O + 1 <= RankIn(LiveMessagesOf(r), m)
                                 /\ RankIn(LiveMessagesOf(r), m) <= O + L}
           /\ \A i, j \in 1..Len(page) :
                  i < j => page[i].timestamp < page[j].timestamp

\* C24: in the slide-generation job a failure at any step, the image synthesis
\* of any one slide included, ends the job as failed: a job that goes on to
\* its final update (slides_pdf_url set, slides_status completed) has
\* produced the image of every slide of its plan
C24_AnyFailureFails ==
    \A j \in 1..Len(slideJobs) :
        slideJobs[j].pc \in {"update", "completed"} =>
            Len(slideJobs[j].image_urls) = Cardinality(SlideNums)

\* the code presented for email is the one stored for it, and has not expired
IsCurrentCode(email, code) ==
    /\ verification_codes[email] # NoEntry
    /\ verification_codes[email].code = code
    /\ verification_codes[email].expires_at >= utcnow

\* C28: a user record is created only by a verify-email request that presented
\* the code currently stored for that email, not yet expired; a wrong,
\* expired or absent code creates no user, starts no insert and leaves the
\* stored entries as they are; a register that gets through replaces the
\* entry of its email with its new code; a successful verification removes
\* the entry; and no email ever has a second user
C28_CreatedOnlyByCurrentCode ==
    [][/\ \A u \in userDocs' \ userDocs :
              \E s \in Slots : /\ authOps[s].op = "verify"
                               /\ authOps[s].pc = "insert"
                               /\ authOps[s].email = u.email
       /\ \A s \in Slots, e \in Emails, c \in VerificationCodes :
              VerifyEmailBegin(s, e, c) =>
                  IF IsCurrentCode(e, c)
                  THEN authOps'[s].op = "verify" /\ authOps'[s].email = e
                  ELSE /\ authOps' = authOps
                       /\ userDocs' = userDocs
                       /\ verification_codes' = verification_codes
                       /\ last'.status = "400"
       /\ \A s \in Slots, c \in VerificationCodes :
              RegisterStore(s, c) =>
                  /\ verification_codes'[authOps[s].user_data.email].code = c
                  /\ verification_codes'[authOps[s].user_data.email].expires_at
                         = utcnow + CodeLifetime
       /\ \A s \in Slots :
              (VerifyEmailRemove(s) /\ last'.status = "200") =>
                  verification_codes'[authOps[s].email] = NoEntry
       /\ \A u, v \in userDocs' : u.email = v.email => u = v
      ]_vars

\* A verification has succeeded: the user exists and the entry is gone, after
\* an earlier register for that email was replaced by a later one
C28_Witness ==
    /\ last.op = "verify_email"
    /\ last.status = "200"
    /\ \E u \in userDocs : verification_codes[u.email] = NoEntry
    /\ nextA >= 3

\* the calls of summary generation and question answering now under way
RetryCalls == {s \in Slots : retryOps[s] # Idle}

\* C29: a call of summary generation or question answering makes at most 3
\* attempts, makes none after a successful one, has waited 2^n seconds after
\* its failed attempt n (n = 0, 1) and never after the third, and returns no
\* result right after the third failure; it never makes more than 3 model
\* calls and 2 waits
C29_BoundedBackoff ==
    \A s \in RetryCalls :
        LET call == retryOps[s]
            tries == Len(call.outcomes)
        IN /\ tries <= 3
           /\ Len(call.waits) <= 2
           /\ \A i \in 1..Len(call.waits) : call.waits[i] = 2 ^ (i - 1)
           /\ \A i \in 1..tries :
                  call.outcomes[i] = "ok" => i = tries /\ call.result = "text"
           /\ Len(call.waits) =
                  IF call.pc = "try" THEN tries ELSE tries - 1
           /\ call.pc = "sleep" => tries < 3
           /\ call.result = "None" <=>
                  (tries = 3 /\ call.outcomes[3] = "failed")
           /\ call.result = "text" => call.pc = "returned"

\* A call has failed three times: it waited 1 and 2 seconds and returned None
C29_Witness ==
    \E s \in RetryCalls :
        /\ retryOps[s].outcomes = <<"failed", "failed", "failed">>
        /\ retryOps[s].waits = <<1, 2>>
        /\ retryOps[s].result = "None"

\* C30: no wallet balance is ever negative, whatever the interleaving of
\* purchase_note requests
C30_NoNegativeBalance ==
    \A i \in 1..Len(wallets) : wallets[i].balance >= 0

====
